---- MODULE Spec2Model ----
(***************************************************************************)
(* MeowterialYou: the image-driven transparency heuristic, the template    *)
(* rendering pass and parse_arguments of src/util.py, and the palette, the *)
(* addon substitutions and the steps of apply_theme of ApplierDomain in    *)
(* src/applier/domain.py.                                                  *)
(*                                                                         *)
(* Numbers are fixed point.  Brightness is in tenths (0..2550), variance   *)
(* and saturation in thousandths (0..1000), a linearised channel and a     *)
(* relative luminance in 1e-5 (0..100000), a contrast ratio in thousandths *)
(* (1000..21000).  Text is a sequence of one-character strings.            *)
(***************************************************************************)
EXTENDS Integers, Sequences, FiniteSets, TLC

VARIABLES
    call,       \* the last call of one of the image/contrast functions and its outcome
    calc_log,   \* what that call sent to the log
    config_file, \* the descriptor list file given to Config.read
    config,     \* the descriptor list handed to Config.generate, in declared order
    prefs_file, \* ~/.config/meowterialyou/prefs.conf
    lightmode,  \* lightmode_enabled of the pass
    files,      \* the file system: path -> file
    pc,         \* where the renderer is: "start" (list not read yet), "read_raised",
                \* "idle", and in Config.generate "loop", "done", "raised"
    idx,        \* the descriptor the loop processes next
    prefs,      \* the preferences load_prefs returned to this pass
    outcome,    \* what happened to each descriptor processed in this pass
    gen_log,    \* the log calls of this pass: <<level, descriptor index>>
    npass,      \* number of passes begun
    history,    \* the file system at the start and at the end of each finished pass
    subst,      \* the substitution loop of Config.generate on one template text
    app,        \* an ApplierDomain: its generation options and its last apply_theme
    argst       \* parse_arguments: the last-arguments files and the last invocation

calc_vars == <<call, calc_log>>

gen_vars == <<config_file, config, prefs_file, lightmode, files, pc, idx, prefs, outcome, gen_log,
              npass, history>>

ext_vars == <<subst, app, argst>>

vars == <<call, calc_log, config_file, config, prefs_file, lightmode, files, pc, idx, prefs, outcome,
          gen_log, npass, history, subst, app, argst>>

----------------------------------------------------------------------------
(* Bounds of the model *)

\* longest pixel list an image is decoded to (the code resizes to 64x64 / 32x32)
MaxPixels == 2

----------------------------------------------------------------------------
(* Helpers *)

Min(a, b) == IF a <= b THEN a ELSE b
Max(a, b) == IF a >= b THEN a ELSE b

RECURSIVE SumSeq(_)
SumSeq(s) == IF s = <<>> THEN 0 ELSE Head(s) + SumSeq(Tail(s))

\* s[a..b] clipped to the sequence, Python's s[a-1:b]
Slice(s, a, b) == SubSeq(s, a, Min(b, Len(s)))

\* Python's int(): truncation toward zero of num/den, den > 0
Trunc(num, den) == IF num >= 0 THEN num \div den ELSE -((-num) \div den)

----------------------------------------------------------------------------
(* _get_image_stats, util.py 141-182 *)

\* neutral statistics returned when the image cannot be analysed
DefaultStats == <<1280, 500, 500>>

\* perceived brightness of a pixel, in tenths
PixelBrightness(p) == (299 * p[1] + 587 * p[2] + 114 * p[3]) \div 100

\* saturation of a pixel, in thousandths
PixelSaturation(p) ==
    LET max_c == Max(p[1], Max(p[2], p[3]))
        min_c == Min(p[1], Min(p[2], p[3]))
    IN  IF max_c > 0 THEN ((max_c - min_c) * 1000) \div max_c ELSE 0

\* the try body: statistics of a decoded image
ImageStats(pixels) ==
    LET n == Len(pixels)
        brightnesses == [i \in 1..n |-> PixelBrightness(pixels[i])]
        saturations == [i \in 1..n |-> PixelSaturation(pixels[i])]
        avg_brightness == SumSeq(brightnesses) \div n
        avg_saturation == SumSeq(saturations) \div n
        mean == avg_brightness
        variance == SumSeq([i \in 1..n |->
                        (brightnesses[i] - mean) * (brightnesses[i] - mean)]) \div n
        normalized_variance == Min(variance \div 500, 1000)
    IN  <<avg_brightness, normalized_variance, avg_saturation>>

\* the try body: [raised, ret]; Image.open raises on a file that cannot be
\* opened or decoded
StatsTry(img) ==
    IF img.ok
    THEN [raised |-> FALSE, ret |-> ImageStats(img.pixels)]
    ELSE [raised |-> TRUE, ret |-> <<>>]

\* a version whose handler re-raises instead of returning the defaults
get_image_stats_reraise(img) ==
    LET t == StatsTry(img)
    IN  [ret |-> IF t.raised THEN <<0, 0, 0>> ELSE t.ret,
         warned |-> t.raised, raised |-> t.raised]

\* [ret, warned, raised]: `except Exception` logs a warning and returns the defaults
get_image_stats(img) ==
    LET t == StatsTry(img)
    IN  IF t.raised
        THEN [ret |-> DefaultStats, warned |-> TRUE, raised |-> FALSE]
        ELSE [ret |-> t.ret, warned |-> FALSE, raised |-> FALSE]

----------------------------------------------------------------------------
(* _calculate_contrast_ratio, util.py 185-212 *)

HexDigits == <<"0", "1", "2", "3", "4", "5", "6", "7", "8", "9",
               "a", "b", "c", "d", "e", "f", "A", "B", "C", "D", "E", "F">>

IsHexDigit(ch) == \E i \in 1..Len(HexDigits) : HexDigits[i] = ch

HexVal(ch) ==
    LET i == CHOOSE k \in 1..Len(HexDigits) : HexDigits[k] = ch
    IN  IF i <= 16 THEN i - 1 ELSE i - 7

\* int(s, 16) of a slice of at most two characters: does it parse
IntOk(s) ==
    \/ Len(s) = 1 /\ IsHexDigit(s[1])
    \/ Len(s) = 2 /\ IsHexDigit(s[1]) /\ IsHexDigit(s[2])
    \/ Len(s) = 2 /\ s[1] \in {"+", "-", " "} /\ IsHexDigit(s[2])
    \/ Len(s) = 2 /\ IsHexDigit(s[1]) /\ s[2] = " "

\* int(s, 16) of a slice that parses
IntVal(s) ==
    IF Len(s) = 1 THEN HexVal(s[1])
    ELSE IF s[1] = "-" THEN -HexVal(s[2])
    ELSE IF s[1] \in {"+", " "} THEN HexVal(s[2])
    ELSE IF s[2] = " " THEN HexVal(s[1])
    ELSE 16 * HexVal(s[1]) + HexVal(s[2])

\* str.lstrip("#")
RECURSIVE lstrip(_)
lstrip(s) == IF s # <<>> /\ Head(s) = "#" THEN lstrip(Tail(s)) ELSE s

\* the inner hex_to_rgb: [raised, val]; None has no lstrip, a slice that
\* int(., 16) rejects raises ValueError
cr_hex_to_rgb(hex_color) ==
    LET h == lstrip(hex_color)
        parts == <<Slice(h, 1, 2), Slice(h, 3, 4), Slice(h, 5, 6)>>
    IN  IF hex_color # <<"None">> /\ \A i \in 1..3 : IntOk(parts[i])
        THEN [raised |-> FALSE, val |-> [i \in 1..3 |-> IntVal(parts[i])]]
        ELSE [raised |-> TRUE, val |-> <<>>]

\* ((c/255 + 0.055) / 1.055) ** 2.4 in 1e-5, for c = 0..255 (entry c + 1)
PowTable ==
    << 83, 98, 115, 133, 152, 173, 196, 220, 246, 274, 303, 335, 368, 402, 439, 478,
       518, 561, 605, 651, 700, 750, 802, 857, 913, 972, 1033, 1096, 1161, 1229, 1298, 1370,
       1444, 1521, 1600, 1681, 1764, 1850, 1938, 2029, 2122, 2217, 2315, 2416, 2519, 2624, 2732, 2843,
       2956, 3071, 3190, 3310, 3434, 3560, 3689, 3820, 3955, 4092, 4231, 4374, 4519, 4667, 4817, 4971,
       5127, 5286, 5448, 5613, 5781, 5951, 6125, 6301, 6480, 6663, 6848, 7036, 7227, 7421, 7619, 7819,
       8022, 8228, 8438, 8650, 8866, 9084, 9306, 9531, 9759, 9990, 10224, 10462, 10702, 10946, 11193, 11444,
       11697, 11954, 12214, 12477, 12744, 13014, 13287, 13563, 13843, 14126, 14413, 14703, 14996, 15293, 15593, 15896,
       16203, 16513, 16827, 17144, 17465, 17789, 18116, 18447, 18782, 19120, 19462, 19807, 20156, 20508, 20864, 21223,
       21586, 21953, 22323, 22697, 23074, 23455, 23840, 24228, 24620, 25016, 25415, 25818, 26225, 26636, 27050, 27468,
       27889, 28315, 28744, 29177, 29614, 30054, 30499, 30947, 31399, 31855, 32314, 32778, 33245, 33716, 34191, 34670,
       35153, 35640, 36131, 36625, 37124, 37626, 38133, 38643, 39157, 39676, 40198, 40724, 41254, 41789, 42327, 42869,
       43415, 43966, 44520, 45079, 45641, 46208, 46778, 47353, 47932, 48515, 49102, 49693, 50289, 50888, 51492, 52100,
       52712, 53328, 53948, 54572, 55201, 55834, 56471, 57112, 57758, 58408, 59062, 59720, 60383, 61050, 61721, 62396,
       63076, 63760, 64448, 65141, 65837, 66539, 67244, 67954, 68669, 69387, 70110, 70838, 71569, 72306, 73046, 73791,
       74540, 75294, 76052, 76815, 77582, 78354, 79130, 79910, 80695, 81485, 82279, 83077, 83880, 84687, 85499, 86316,
       87137, 87962, 88792, 89627, 90466, 91310, 92158, 93011, 93869, 94731, 95597, 96469, 97345, 98225, 99110, 100000 >>

\* channel(c): the linear branch up to c/255 = 0.03928, the power branch above
channel(c) ==
    IF c * 100000 <= 3928 * 255
    THEN (c * 1000000) \div 32946
    ELSE PowTable[c + 1]

relative_luminance(rgb) ==
    (2126 * channel(rgb[1]) + 7152 * channel(rgb[2]) + 722 * channel(rgb[3])) \div 10000

\* r, g, b = rgb and the arithmetic on them: does it raise
UnpackRaises(color2_rgb) ==
    \/ color2_rgb.tag # "tuple"
    \/ Len(color2_rgb.items) # 3

\* a version that divides the first luminance by the second without ordering them
ContrastOfUnordered(lum1, lum2) == ((lum1 + 5000) * 1000) \div (lum2 + 5000)

\* (lighter + 0.05) / (darker + 0.05)
ContrastOf(lum1, lum2) ==
    LET lighter == Max(lum1, lum2)
        darker == Min(lum1, lum2)
    IN  ((lighter + 5000) * 1000) \div (darker + 5000)

\* the value the except clause returns
ContrastFallback == 10 * 1000

\* the try body: [raised, ret]
ContrastTry(color1, color2_rgb) ==
    LET rgb1 == cr_hex_to_rgb(color1)
    IN  IF rgb1.raised \/ UnpackRaises(color2_rgb)
        THEN [raised |-> TRUE, ret |-> 0]
        ELSE [raised |-> FALSE,
              ret |-> ContrastOf(relative_luminance(rgb1.val),
                                 relative_luminance(color2_rgb.items))]

\* a version whose handler catches nothing
calculate_contrast_ratio_uncaught(color1, color2_rgb) == ContrastTry(color1, color2_rgb)

\* [ret, raised]: the bare `except:` returns the fallback
calculate_contrast_ratio(color1, color2_rgb) ==
    LET t == ContrastTry(color1, color2_rgb)
    IN  IF t.raised
        THEN [ret |-> ContrastFallback, raised |-> FALSE]
        ELSE [ret |-> t.ret, raised |-> FALSE]

----------------------------------------------------------------------------
(* _calculate_terminal_transparency, util.py 215-303 *)

\* a version whose fallback colour is black
AvgWallpaperRgbBlack(img) ==
    IF img.ok
    THEN LET n == Len(img.pixels)
         IN  [tag |-> "tuple",
              items |-> [k \in 1..3 |->
                            SumSeq([i \in 1..n |-> img.pixels[i][k]]) \div n]]
    ELSE [tag |-> "tuple", items |-> <<0, 0, 0>>]

\* average colour of the decoded wallpaper, or the neutral grey
AvgWallpaperRgb(img) ==
    IF img.ok
    THEN LET n == Len(img.pixels)
         IN  [tag |-> "tuple",
              items |-> [k \in 1..3 |->
                            SumSeq([i \in 1..n |-> img.pixels[i][k]]) \div n]]
    ELSE [tag |-> "tuple", items |-> <<128, 128, 128>>]

\* the surface estimated from the mode when none is supplied
EstimatedSurface(lightmode_enabled) ==
    IF ~lightmode_enabled
    THEN <<"#", "1", "a", "1", "c", "1", "a">>
    ELSE <<"#", "f", "d", "f", "d", "f", "5">>

\* `if surface_color:`: None and the empty string are falsy
Truthy(surface_color) == surface_color # <<"None">> /\ surface_color # <<>>

\* a version whose busyness term raises the base
BaseScaledBusyBonus(stats, contrast, lightmode_enabled) ==
    LET cf == Min(contrast, 21000)
        base0 == IF lightmode_enabled
                 THEN 5 * 42000 + cf * 36
                      + (IF stats[1] < 1020 THEN 10 * 42000 ELSE 0)
                 ELSE 20 * 42000 + cf * 63
                      - (IF stats[1] > 1530 THEN 15 * 42000 ELSE 0)
    IN  base0 + stats[2] * 840 - stats[3] * 336

\* a version whose brightness thresholds are inclusive
BaseScaledInclusive(stats, contrast, lightmode_enabled) ==
    LET cf == Min(contrast, 21000)
        base0 == IF lightmode_enabled
                 THEN 5 * 42000 + cf * 36
                      + (IF stats[1] <= 1020 THEN 10 * 42000 ELSE 0)
                 ELSE 20 * 42000 + cf * 63
                      - (IF stats[1] >= 1530 THEN 15 * 42000 ELSE 0)
    IN  base0 - stats[2] * 840 - stats[3] * 336

\* a version whose contrast factor is not capped at 1
BaseScaledUncapped(stats, contrast, lightmode_enabled) ==
    LET base0 == IF lightmode_enabled
                 THEN 5 * 42000 + contrast * 36
                      + (IF stats[1] < 1020 THEN 10 * 42000 ELSE 0)
                 ELSE 20 * 42000 + contrast * 63
                      - (IF stats[1] > 1530 THEN 15 * 42000 ELSE 0)
    IN  base0 - stats[2] * 840 - stats[3] * 336

\* lines 256-296: base * 42000, from the statistics and the contrast
BaseScaled(stats, contrast, lightmode_enabled) ==
    LET brightness == stats[1]
        variance == stats[2]
        saturation == stats[3]
        cf == Min(contrast, 21000)
        base0 == IF lightmode_enabled
                 THEN 5 * 42000 + cf * 36
                      + (IF brightness < 1020 THEN 10 * 42000 ELSE 0)
                 ELSE 20 * 42000 + cf * 63
                      - (IF brightness > 1530 THEN 15 * 42000 ELSE 0)
    IN  base0 - variance * 840 - saturation * 336

\* a version that truncates and does not clamp
ClampTransparencyNone(base, lightmode_enabled) == Trunc(base, 42000)

\* the final clamp
ClampTransparency(base, lightmode_enabled) ==
    IF lightmode_enabled
    THEN Max(0, Min(40, Trunc(base, 42000)))
    ELSE Max(15, Min(70, Trunc(base, 42000)))

TransparencyFromStats(stats, contrast, lightmode_enabled) ==
    ClampTransparency(BaseScaled(stats, contrast, lightmode_enabled), lightmode_enabled)

\* [ret, warned, raised]
calculate_terminal_transparency(img, lightmode_enabled, surface_color) ==
    LET st == get_image_stats(img)
        avg_wallpaper_rgb == AvgWallpaperRgb(img)
        contrast == IF Truthy(surface_color)
                    THEN calculate_contrast_ratio(surface_color, avg_wallpaper_rgb)
                    ELSE calculate_contrast_ratio(EstimatedSurface(lightmode_enabled),
                                                  avg_wallpaper_rgb)
    IN  [ret |-> TransparencyFromStats(st.ret, contrast.ret, lightmode_enabled),
         warned |-> st.warned,
         raised |-> st.raised \/ contrast.raised]

----------------------------------------------------------------------------
(* Inputs of the image functions *)

Black == <<0, 0, 0>>
White == <<255, 255, 255>>
Grey == <<128, 128, 128>>
DimGrey == <<102, 102, 102>>
Red == <<255, 0, 0>>
Slate == <<26, 28, 30>>

PixelColours == {Black, White, Grey, DimGrey, Red, Slate}

PixelLists == UNION {[1..n -> PixelColours] : n \in 1..MaxPixels}

\* a wallpaper: one that cannot be opened or decoded, or its pixels
Images == {[ok |-> FALSE, pixels |-> <<>>]} \cup {[ok |-> TRUE, pixels |-> p] : p \in PixelLists}

\* well-formed six-digit colours
WellFormedHex == {
    <<"#", "1", "a", "1", "c", "1", "a">>,
    <<"#", "f", "d", "f", "d", "f", "5">>,
    <<"#", "1", "A", "1", "C", "1", "E">>,
    <<"#", "0", "0", "0", "0", "0", "0">>,
    <<"#", "f", "f", "f", "f", "f", "f">>,
    <<"#", "8", "0", "8", "0", "8", "0">>,
    <<"f", "f", "0", "0", "0", "0">> }

\* strings that are not six hex digits
MalformedHex == {
    <<"#", "f", "f", "f">>,
    <<"#", "1", "2", "3", "4", "5">>,
    <<"#", "g", "g", "g", "g", "g", "g">>,
    <<"#", "f", "f", "f", "f", "f", "f", "0", "0">>,
    <<"#", "f", "f", "f", "f", "z", "z">>,
    <<"#", "-", "1", "+", "f", " ", "3">>,
    <<"#">> }

\* a surface colour: absent (None), empty, well formed or malformed
SurfaceColours == {<<"None">>, <<>>} \cup WellFormedHex \cup MalformedHex

\* the second colour: a triple of channels, a tuple of another length, or a
\* value that cannot be unpacked into three numbers
RgbArgs ==
    {[tag |-> "tuple", items |-> p] : p \in PixelColours}
    \cup {[tag |-> "tuple", items |-> <<0, 0>>],
          [tag |-> "tuple", items |-> <<0, 0, 0, 0>>],
          [tag |-> "other", items |-> <<>>]}

\* statistics an analysed wallpaper can have: brightness in tenths around the
\* two thresholds 0.4 * 255 and 0.6 * 255, variance and saturation in thousandths
BrightnessGrid == {0, 1019, 1020, 1021, 1275, 1529, 1530, 1531, 2550}
VarianceGrid == {0, 1, 250, 500, 999, 1000}
SaturationGrid == {0, 500, 1000}
StatsGrid == {<<b, v, sa>> : b \in BrightnessGrid, v \in VarianceGrid, sa \in SaturationGrid}

\* contrast ratios in thousandths, 1 to 21, and a value on either side of
\* that range
ContrastGrid == {0, 1000, 4500, 10000, 15000, 21000, 30000}

NoImage == [ok |-> FALSE, pixels |-> <<>>]
NoRgb == [tag |-> "other", items |-> <<>>]

----------------------------------------------------------------------------
(* The calls *)

\* no render pass: the image functions do not touch the renderer's state
GenQuiet ==
    /\ config_file = [state |-> "unreadable", sections |-> <<>>]
    /\ config = <<>>
    /\ prefs_file = [state |-> "missing", map |-> <<>>]
    /\ lightmode = FALSE
    /\ files = <<>>
    /\ pc = "idle"
    /\ idx = 1
    /\ prefs = <<>>
    /\ outcome = <<>>
    /\ gen_log = <<>>
    /\ npass = 0
    /\ history = <<>>

\* no substitution loop, no ApplierDomain and no parse_arguments in progress
NoSub == [text |-> <<>>, order |-> <<>>, i |-> 1, out |-> <<>>, applied |-> <<>>,
          renderer |-> "none", j |-> 1, addon |-> <<>>]
NoScheme == [primary |-> "None", surface |-> "None"]
NoApp == [wallpaper_path |-> "None", lightmode_enabled |-> FALSE, silent |-> FALSE,
          buttons_left_enabled |-> FALSE, scheme |-> NoScheme, pc |-> "idle",
          rendered_with |-> NoScheme, reload_arg |-> NoScheme, effects |-> <<>>,
          raised |-> "none", ui_improvements_enabled |-> FALSE, pass_effects |-> <<>>,
          op |-> "none"]
NoFile == [state |-> "missing", args |-> <<>>]
NoNamespace == [silent |-> FALSE, uninstall |-> FALSE, ui |-> FALSE]
NoArgs == [args_file |-> NoFile, old_args_file |-> NoFile, readonly |-> FALSE,
           argv |-> <<>>, ret |-> [kind |-> "none", ns |-> NoNamespace]]

SubQuiet == subst = NoSub
AppQuiet == app = NoApp
ArgsQuiet == argst = NoArgs

NoCall == [op |-> "none", img |-> NoImage, lightmode |-> FALSE,
           color1 |-> <<>>, color2 |-> NoRgb, ret |-> <<>>, raised |-> FALSE,
           stats |-> <<>>, contrast |-> 0, base |-> 0]

CalcQuiet ==
    /\ call = NoCall
    /\ calc_log = <<>>

CalcInit ==
    /\ CalcQuiet
    /\ GenQuiet
    /\ SubQuiet /\ AppQuiet /\ ArgsQuiet

GetImageStats(img) ==
    LET r == get_image_stats(img)
    IN  /\ call.op = "none"
        /\ call' = [op |-> "stats", img |-> img, lightmode |-> FALSE,
                    color1 |-> <<>>, color2 |-> NoRgb, ret |-> r.ret, raised |-> r.raised,
                    stats |-> <<>>, contrast |-> 0, base |-> 0]
        /\ calc_log' = IF r.warned THEN <<"warning">> ELSE <<>>
        /\ UNCHANGED <<gen_vars, ext_vars>>

CalculateContrastRatio(color1, color2_rgb) ==
    LET r == calculate_contrast_ratio(color1, color2_rgb)
    IN  /\ call.op = "none"
        /\ call' = [op |-> "contrast", img |-> NoImage, lightmode |-> FALSE,
                    color1 |-> color1, color2 |-> color2_rgb,
                    ret |-> <<r.ret>>, raised |-> r.raised,
                    stats |-> <<>>, contrast |-> 0, base |-> 0]
        /\ calc_log' = <<>>
        /\ UNCHANGED <<gen_vars, ext_vars>>

CalculateTerminalTransparency(img, lightmode_enabled, surface_color) ==
    LET r == calculate_terminal_transparency(img, lightmode_enabled, surface_color)
    IN  /\ call.op = "none"
        /\ call' = [op |-> "transparency", img |-> img, lightmode |-> lightmode_enabled,
                    color1 |-> surface_color, color2 |-> NoRgb,
                    ret |-> <<r.ret>>, raised |-> r.raised,
                    stats |-> <<>>, contrast |-> 0, base |-> 0]
        /\ calc_log' = IF r.warned THEN <<"warning">> ELSE <<>>
        /\ UNCHANGED <<gen_vars, ext_vars>>

\* lines 256-296 on given statistics and a given contrast ratio: the
\* arithmetic that follows the image analysis, a pure function of its inputs
TransparencyOfStats(stats, contrast, lightmode_enabled) ==
    /\ call.op = "none"
    /\ call' = [op |-> "curve", img |-> NoImage, lightmode |-> lightmode_enabled,
                color1 |-> <<>>, color2 |-> NoRgb,
                ret |-> <<TransparencyFromStats(stats, contrast, lightmode_enabled)>>,
                raised |-> FALSE, stats |-> stats, contrast |-> contrast,
                base |-> BaseScaled(stats, contrast, lightmode_enabled)]
    /\ calc_log' = <<>>
    /\ UNCHANGED <<gen_vars, ext_vars>>

\* the caller has taken the result; the functions keep no state between calls
CalcReturn ==
    /\ call.op # "none"
    /\ call' = NoCall
    /\ calc_log' = <<>>
    /\ UNCHANGED <<gen_vars, ext_vars>>

CalcNext ==
    \/ \E img \in Images : GetImageStats(img)
    \/ \E c1 \in WellFormedHex \cup MalformedHex, c2 \in RgbArgs :
           CalculateContrastRatio(c1, c2)
    \/ \E img \in Images, lm \in BOOLEAN, s \in SurfaceColours :
           CalculateTerminalTransparency(img, lm, s)
    \/ \E st \in StatsGrid, c \in ContrastGrid, lm \in BOOLEAN :
           TransparencyOfStats(st, c, lm)
    \/ CalcReturn

SpecCalc == CalcInit /\ [][CalcNext]_vars

----------------------------------------------------------------------------
(* Properties of the image functions *)

\* C1: for every wallpaper (decodable or not), every mode and every surface
\* colour (supplied, malformed or absent), _calculate_terminal_transparency
\* raises nothing and returns an integer in [15,70] in dark mode and in
\* [0,40] in light mode.
C1_TransparencyBounds ==
    call.op = "transparency" =>
        /\ ~call.raised
        /\ IF call.lightmode
           THEN call.ret[1] >= 0 /\ call.ret[1] <= 40
           ELSE call.ret[1] >= 15 /\ call.ret[1] <= 70

\* a dark-mode call on a bright busy wallpaper with a malformed surface colour
C1_Witness ==
    /\ call.op = "transparency"
    /\ ~call.lightmode
    /\ call.img = [ok |-> TRUE, pixels |-> <<White, Red>>]
    /\ call.color1 = <<"#", "f", "f", "f">>
    /\ call.ret = <<15>>

\* C13: with the mode, the brightness, the saturation and the contrast of a
\* computation held fixed, no larger normalised variance gives a larger
\* transparency than the one computed.
C13_MonotoneVariance ==
    call.op = "curve" =>
        \A v2 \in VarianceGrid :
            v2 >= call.stats[2] =>
                TransparencyFromStats(<<call.stats[1], v2, call.stats[3]>>,
                                      call.contrast, call.lightmode) <= call.ret[1]

\* a calm wallpaper in dark mode: 35, where the busiest one gets the floor
C13_Witness ==
    /\ call.op = "curve"
    /\ ~call.lightmode
    /\ call.stats = <<1275, 0, 0>>
    /\ call.contrast = 10000
    /\ call.ret = <<35>>
    /\ TransparencyFromStats(<<1275, 1000, 0>>, 10000, FALSE) = 15

\* the base of a computation less the base of the same computation on a
\* wallpaper of middle brightness (0.5), scaled by 42000
BrightnessCorrection ==
    call.base - BaseScaled(<<1275, call.stats[2], call.stats[3]>>, call.contrast,
                           call.lightmode)

\* C18: in light mode 10 is added to the base exactly when the normalised
\* brightness is strictly below 0.4, in dark mode 15 is subtracted exactly
\* when it is strictly above 0.6; nothing is added or subtracted otherwise.
C18_BrightnessCorrection ==
    call.op = "curve" =>
        BrightnessCorrection =
            IF call.lightmode
            THEN (IF call.stats[1] < 1020 THEN 10 * 42000 ELSE 0)
            ELSE (IF call.stats[1] > 1530 THEN 0 - 15 * 42000 ELSE 0)

\* a light-mode computation at brightness exactly 0.4 and a dark-mode one
\* just above 0.6
C18_Witness ==
    /\ call.op = "curve"
    /\ \/ call.lightmode /\ call.stats[1] = 1020 /\ BrightnessCorrection = 0
       \/ ~call.lightmode /\ call.stats[1] = 1531 /\ BrightnessCorrection = 0 - 630000

\* C24: whatever the statistics (brightness in [0,255], variance and
\* saturation in [0,1]) and the contrast, the integer the heuristic comes to
\* before its clamp is at most 33 in light mode and at most 51 in dark mode,
\* and so is the transparency returned: the upper clamps 40 and 70 never bind.
C24_UpperClampIdle ==
    /\ call.op \in {"curve", "transparency"} =>
           call.ret[1] <= (IF call.lightmode THEN 33 ELSE 51)
    /\ call.op = "curve" =>
           Trunc(call.base, 42000) <= (IF call.lightmode THEN 33 ELSE 51)

\* the largest value of dark mode: a black, flat, colourless wallpaper and a
\* contrast above 21
C24_Witness ==
    /\ call.op = "curve"
    /\ ~call.lightmode
    /\ call.stats = <<0, 0, 0>>
    /\ call.contrast = 30000
    /\ call.ret = <<51>>

\* C8: when the image cannot be opened or decoded, _get_image_stats returns
\* exactly (128, 0.5, 0.5), logs a warning and raises nothing.
C8_StatsDefault ==
    (call.op = "stats" /\ ~call.img.ok) =>
        /\ call.ret = <<1280, 500, 500>>
        /\ calc_log = <<"warning">>
        /\ ~call.raised

C8_Witness ==
    /\ call.op = "stats"
    /\ ~call.img.ok
    /\ calc_log = <<"warning">>

\* pairs of a hex colour and the RGB triple of the same colour
SameColourPairs == {
    <<<<"#", "0", "0", "0", "0", "0", "0">>, Black>>,
    <<<<"#", "f", "f", "f", "f", "f", "f">>, White>>,
    <<<<"#", "8", "0", "8", "0", "8", "0">>, Grey>>,
    <<<<"#", "1", "A", "1", "C", "1", "E">>, Slate>>,
    <<<<"f", "f", "0", "0", "0", "0">>, Red>> }

\* C9: for every well-formed 6-digit hex colour and every RGB triple with
\* channels in 0..255 the contrast ratio r satisfies 1 <= r <= 21, and it is
\* exactly 1 when the triple is the same colour as the hex colour.
C9_ContrastBounds ==
    (/\ call.op = "contrast"
     /\ call.color1 \in WellFormedHex
     /\ call.color2.tag = "tuple"
     /\ call.color2.items \in PixelColours) =>
        /\ ~call.raised
        /\ call.ret[1] >= 1000
        /\ call.ret[1] <= 21000
        /\ <<call.color1, call.color2.items>> \in SameColourPairs => call.ret[1] = 1000

\* the darker colour passed first: white wallpaper against a black surface
C9_Witness ==
    /\ call.op = "contrast"
    /\ call.color1 = <<"#", "0", "0", "0", "0", "0", "0">>
    /\ call.color2.items = White
    /\ call.ret = <<21000>>

\* the second colour is not a triple of three numbers
BadRgb(c2) == c2.tag # "tuple" \/ Len(c2.items) # 3

\* C10 as stated: a hex string that is not 6 hex digits, or an RGB value
\* that is not a 3-number triple, gives the fixed value 10.
C10_Original ==
    (call.op = "contrast" /\ (call.color1 \in MalformedHex \/ BadRgb(call.color2))) =>
        call.ret = <<10000>> /\ ~call.raised

\* hex strings whose conversion raises: fewer than five characters after the
\* leading '#', or a character int(., 16) rejects among the first six
RaisingHex == {
    <<"#", "f", "f", "f">>,
    <<"#", "g", "g", "g", "g", "g", "g">>,
    <<"#", "f", "f", "f", "f", "z", "z">>,
    <<"#">> }

\* malformed strings that are converted, with the six-digit colour they are read as
LenientHex == {
    <<<<"#", "1", "2", "3", "4", "5">>, <<18, 52, 5>>>>,
    <<<<"#", "f", "f", "f", "f", "f", "f", "0", "0">>, <<255, 255, 255>>>>,
    <<<<"#", "-", "1", "+", "f", " ", "3">>, <<-1, 15, 3>>>> }

\* C10 (amended): when the conversion of either colour raises, the function
\* returns 10 and raises nothing; a string of five hex digits, of more than
\* six, or with a sign or blank in a digit pair is converted and the ratio of
\* the colour it is read as is returned.
C10_FallbackOnRaise ==
    call.op = "contrast" =>
        /\ ~call.raised
        /\ (call.color1 \in RaisingHex \/ BadRgb(call.color2)) => call.ret = <<10000>>
        /\ \A l \in LenientHex :
              (call.color1 = l[1] /\ ~BadRgb(call.color2)) =>
                  call.ret = <<ContrastOf(relative_luminance(l[2]),
                                          relative_luminance(call.color2.items))>>

\* a three-digit colour falls back, whatever the triple
C10_Witness ==
    /\ call.op = "contrast"
    /\ call.color1 = <<"#", "f", "f", "f">>
    /\ call.color2.items = Black
    /\ call.ret = <<10000>>

\* C25 as stated: on a wallpaper that cannot be decoded the function raises
\* nothing and returns the lower bound of the mode, 15 in dark mode and 0 in
\* light mode, whatever the surface colour.
C25_Original ==
    (call.op = "transparency" /\ ~call.img.ok) =>
        /\ ~call.raised
        /\ call.ret = <<IF call.lightmode THEN 0 ELSE 15>>

\* C25 (amended): on a wallpaper that cannot be decoded the function raises
\* nothing; it returns 0 in light mode, and in dark mode 15 when the surface
\* colour is absent, empty or converted, 21 when a surface colour is supplied
\* whose conversion raises.
C25_UndecodableFloor ==
    (call.op = "transparency" /\ ~call.img.ok) =>
        /\ ~call.raised
        /\ call.ret = <<IF call.lightmode THEN 0
                        ELSE IF call.color1 \in RaisingHex THEN 21 ELSE 15>>

\* dark mode, no wallpaper to decode and a three-digit surface colour
C25_Witness ==
    /\ call.op = "transparency"
    /\ ~call.img.ok
    /\ ~call.lightmode
    /\ call.color1 = <<"#", "f", "f", "f">>
    /\ call.ret = <<21>>

----------------------------------------------------------------------------
(* Text *)

LowerCase == <<"a", "b", "c", "d", "e", "f", "g", "h", "i", "j", "k", "l", "m",
               "n", "o", "p", "q", "r", "s", "t", "u", "v", "w", "x", "y", "z">>
UpperCase == <<"A", "B", "C", "D", "E", "F", "G", "H", "I", "J", "K", "L", "M",
               "N", "O", "P", "Q", "R", "S", "T", "U", "V", "W", "X", "Y", "Z">>

UpperCh(ch) ==
    IF \E i \in 1..26 : LowerCase[i] = ch
    THEN UpperCase[CHOOSE i \in 1..26 : LowerCase[i] = ch]
    ELSE ch

\* str.upper()
upper(s) == [i \in 1..Len(s) |-> UpperCh(s[i])]

\* `sub in s`
Contains(sub, s) ==
    \E i \in 1..(Len(s) - Len(sub) + 1) : SubSeq(s, i, i + Len(sub) - 1) = sub

\* s.endswith(suf)
EndsWith(s, suf) ==
    Len(s) >= Len(suf) /\ SubSeq(s, Len(s) - Len(suf) + 1, Len(s)) = suf

\* s.startswith(pre)
StartsWith(s, pre) == Len(s) >= Len(pre) /\ SubSeq(s, 1, Len(pre)) = pre

\* str(n) of a non-negative integer
RECURSIVE Dec(_)
Dec(n) ==
    LET d == <<"0", "1", "2", "3", "4", "5", "6", "7", "8", "9">>
    IN  IF n < 10 THEN <<d[n + 1]>> ELSE Dec(n \div 10) \o <<d[(n % 10) + 1]>>

\* the regular expression `pat` matches text at position i: '.' matches any
\* character but a newline, every other character of the patterns built by
\* the renderer matches itself ('{' and '}' do not form a repetition there)
MatchAt(pat, text, i) ==
    /\ (pat[1] = "." \/ text[i] = pat[1])
    /\ i + Len(pat) - 1 <= Len(text)
    /\ \A j \in 1..Len(pat) :
          IF pat[j] = "." THEN text[i + j - 1] # "\n" ELSE text[i + j - 1] = pat[j]

\* the text from position i on, with the leftmost of the matches at or after
\* i replaced, then the leftmost after that one, and so on
RECURSIVE ReSubFrom(_, _, _, _, _)
ReSubFrom(pat, repl, text, i, matches) ==
    IF \A j \in matches : j < i THEN SubSeq(text, i, Len(text))
    ELSE SubSeq(text, i, (CHOOSE m \in matches : m >= i /\ \A k \in matches : k >= i => m <= k) - 1)
         \o repl
         \o ReSubFrom(pat, repl, text,
                      (CHOOSE m \in matches : m >= i /\ \A k \in matches : k >= i => m <= k)
                          + Len(pat),
                      matches)

\* re.sub(pat, repl, text): leftmost non-overlapping matches, left to right
re_sub(pat, repl, text) ==
    ReSubFrom(pat, repl, text, 1, {j \in 1..Len(text) : MatchAt(pat, text, j)})

----------------------------------------------------------------------------
(* Paths *)

\* the directories of the process: parent_dir handed to generate, the working
\* directory, the home directory
ParentDir == <<"/", "p">>
Cwd == <<"/", "w">>
Home == <<"/", "h">>

\* the components of a path between its slashes
RECURSIVE SplitFrom(_, _, _)
SplitFrom(s, i, cur) ==
    IF i > Len(s) THEN <<cur>>
    ELSE IF s[i] = "/" THEN <<cur>> \o SplitFrom(s, i + 1, <<>>)
         ELSE SplitFrom(s, i + 1, Append(cur, s[i]))

\* walk the components: '' and '.' stay in place, '..' goes up
RECURSIVE Walk(_, _)
Walk(comps, acc) ==
    IF comps = <<>> THEN acc
    ELSE LET c == Head(comps)
         IN  IF c = <<>> \/ c = <<".">> THEN Walk(Tail(comps), acc)
             ELSE IF c = <<".", ".">>
                  THEN Walk(Tail(comps),
                            IF acc = <<>> THEN acc ELSE SubSeq(acc, 1, Len(acc) - 1))
                  ELSE Walk(Tail(comps), Append(acc, c))

RECURSIVE JoinPath(_)
JoinPath(comps) ==
    IF comps = <<>> THEN <<>> ELSE <<"/">> \o Head(comps) \o JoinPath(Tail(comps))

\* the file a path names: a relative path is taken from the working directory
FileOf(path) ==
    LET full == IF StartsWith(path, <<"/">>) THEN path ELSE Cwd \o <<"/">> \o path
    IN  JoinPath(Walk(SplitFrom(full, 1, <<>>), <<>>))

\* Path.expanduser()
expanduser(path) ==
    IF path = <<"~">> \/ StartsWith(path, <<"~", "/">>)
    THEN Home \o SubSeq(path, 2, Len(path))
    ELSE path

\* os.path.abspath(path)
abspath(path) == FileOf(path)

----------------------------------------------------------------------------
(* Config: feature gating and mode, util.py 472-514, 623-626 *)

\* OPTIONAL_APPS, in declaration order: <<marker, preference key>>
OPTIONAL_APPS == <<
    <<<<"S", "P", "O", "T", "I", "F", "Y">>, "THEME_SPOTIFY">>,
    <<<<"D", "I", "S", "C", "O", "R", "D">>, "THEME_DISCORD">>,
    <<<<"V", "S", "C", "O", "D", "E">>, "THEME_VSCODE">>,
    <<<<"O", "B", "S", "I", "D", "I", "A", "N">>, "THEME_OBSIDIAN">>,
    <<<<"V", "I", "V", "A", "L", "D", "I">>, "THEME_VIVALDI">> >>

\* prefs.get(pref_key, False)
PrefGet(pr, pref_key) == IF pref_key \in DOMAIN pr THEN pr[pref_key] ELSE FALSE

\* a version that treats a missing preference as enabled
should_skip_template_default_on(template_name, pr) ==
    LET template_upper == upper(template_name)
    IN  \E k \in 1..Len(OPTIONAL_APPS) :
            /\ Contains(OPTIONAL_APPS[k][1], template_upper)
            /\ OPTIONAL_APPS[k][2] \in DOMAIN pr
            /\ ~pr[OPTIONAL_APPS[k][2]]

should_skip_template(template_name, pr) ==
    LET template_upper == upper(template_name)
    IN  \E k \in 1..Len(OPTIONAL_APPS) :
            /\ Contains(OPTIONAL_APPS[k][1], template_upper)
            /\ ~PrefGet(pr, OPTIONAL_APPS[k][2])

\* a version that looks for the marker anywhere in the name
is_dark_theme_anywhere(name) == Contains(<<"D", "A", "R", "K">>, upper(name))

is_dark_theme(name) ==
    LET upper_name == upper(name)
    IN  EndsWith(upper_name, <<"D", "A", "R", "K">>)

\* lines 565-569: the mode filter skips the descriptor
ModeSkips(lightmode_enabled, template_name) ==
    \/ lightmode_enabled /\ is_dark_theme(template_name)
    \/ ~lightmode_enabled /\ ~is_dark_theme(template_name)

----------------------------------------------------------------------------
(* ColorTransformer (src/transformers, not part of the sources at hand) *)

\* ColorTransformer.hex_to_rgb: the three channels of a six-digit colour
hex_to_rgb(hex_stripped) ==
    <<IntVal(SubSeq(hex_stripped, 1, 2)),
      IntVal(SubSeq(hex_stripped, 3, 4)),
      IntVal(SubSeq(hex_stripped, 5, 6))>>

\* hue in degrees, lightness and saturation in percent of a colour with the
\* given largest and smallest channel
HlsHue(c, maxc, minc) ==
    IF maxc = minc THEN 0
    ELSE IF maxc = c[1] THEN ((60 * (c[2] - c[3])) \div (maxc - minc) + 360) % 360
    ELSE IF maxc = c[2] THEN (60 * (c[3] - c[1])) \div (maxc - minc) + 120
    ELSE (60 * (c[1] - c[2])) \div (maxc - minc) + 240

HlsLight(maxc, minc) == ((maxc + minc) * 100) \div 510

HlsSat(maxc, minc) ==
    IF maxc = minc THEN 0
    ELSE IF maxc + minc <= 255 THEN ((maxc - minc) * 100) \div (maxc + minc)
    ELSE ((maxc - minc) * 100) \div (510 - maxc - minc)

rgb_to_hls(c, maxc, minc) == <<HlsHue(c, maxc, minc), HlsLight(maxc, minc), HlsSat(maxc, minc)>>

\* ColorTransformer.hex_to_hls: <<hue, light, saturation>>
hex_to_hls(hex_stripped) ==
    rgb_to_hls(hex_to_rgb(hex_stripped),
               Max(hex_to_rgb(hex_stripped)[1],
                   Max(hex_to_rgb(hex_stripped)[2], hex_to_rgb(hex_stripped)[3])),
               Min(hex_to_rgb(hex_stripped)[1],
                   Min(hex_to_rgb(hex_stripped)[2], hex_to_rgb(hex_stripped)[3])))

----------------------------------------------------------------------------
(* Config.generate: the substitutions, util.py 581-609 *)

\* "@{" + body + "}"
Placeholder(body) == <<"@", "{">> \o body \o <<"}">>

\* f"rgb({r},{g},{b})", the form without blanks
rgb_value_compact(rgb_tuple) ==
    <<"r", "g", "b", "(">> \o Dec(rgb_tuple[1]) \o <<",">> \o Dec(rgb_tuple[2])
        \o <<",">> \o Dec(rgb_tuple[3]) \o <<")">>

\* f"rgb{rgb_tuple}": "rgb" and the repr of a tuple of three integers
rgb_value(rgb_tuple) ==
    <<"r", "g", "b">> \o <<"(">> \o Dec(rgb_tuple[1]) \o <<",", " ">> \o Dec(rgb_tuple[2])
        \o <<",", " ">> \o Dec(rgb_tuple[3]) \o <<")">>

\* f"rgba({rgb_tuple[0]}, {rgb_tuple[1]}, {rgb_tuple[2]}, 0.5)"
rgba50_value(rgb_tuple) ==
    <<"r", "g", "b", "a", "(">> \o Dec(rgb_tuple[1]) \o <<",", " ">> \o Dec(rgb_tuple[2])
        \o <<",", " ">> \o Dec(rgb_tuple[3]) \o <<",", " ", "0", ".", "5", ")">>

\* the patterns of one role and what replaces them, in the order of the
\* re.sub calls (lines 600-607), from the values computed in lines 582-598
RolePatterns(key, value, hex_stripped, rgb_tuple, hls, wallpaper_value) ==
    << <<Placeholder(key), hex_stripped>>,
       <<Placeholder(key \o <<".", "h", "e", "x">>), value>>,
       <<Placeholder(key \o <<".", "r", "g", "b">>), rgb_value(rgb_tuple)>>,
       <<Placeholder(key \o <<".", "r", "g", "b", "a", "5", "0">>), rgba50_value(rgb_tuple)>>,
       <<Placeholder(<<"w", "a", "l", "l", "p", "a", "p", "e", "r">>), wallpaper_value>>,
       <<Placeholder(key \o <<".", "h", "u", "e">>), Dec(hls[1])>>,
       <<Placeholder(key \o <<".", "s", "a", "t">>), Dec(hls[3])>>,
       <<Placeholder(key \o <<".", "l", "i", "g", "h", "t">>), Dec(hls[2])>> >>

\* a version that leaves out the last re.sub, the .light form
RoleSubsNoLight(key, value, wallpaper) ==
    SubSeq(RolePatterns(key, value, SubSeq(value, 2, Len(value)),
                        hex_to_rgb(SubSeq(value, 2, Len(value))),
                        hex_to_hls(SubSeq(value, 2, Len(value))),
                        abspath(wallpaper)), 1, 7)

\* a version whose .rgb and .rgba50 values are written without blanks
RoleSubsCompact(key, value, wallpaper) ==
    [RolePatterns(key, value, SubSeq(value, 2, Len(value)),
                  hex_to_rgb(SubSeq(value, 2, Len(value))),
                  hex_to_hls(SubSeq(value, 2, Len(value))),
                  abspath(wallpaper))
        EXCEPT ![3] = <<@[1], rgb_value_compact(hex_to_rgb(SubSeq(value, 2, Len(value))))>>]

\* a version whose bare pattern does not ask for the closing brace
RoleSubsBarePrefix(key, value, wallpaper) ==
    [RolePatterns(key, value, SubSeq(value, 2, Len(value)),
                  hex_to_rgb(SubSeq(value, 2, Len(value))),
                  hex_to_hls(SubSeq(value, 2, Len(value))),
                  abspath(wallpaper))
        EXCEPT ![1] = <<<<"@", "{">> \o key, @[2]>>]

\* hex_stripped = value[1:], and the values derived from it
RoleSubs(key, value, wallpaper) ==
    RolePatterns(key, value, SubSeq(value, 2, Len(value)),
                 hex_to_rgb(SubSeq(value, 2, Len(value))),
                 hex_to_hls(SubSeq(value, 2, Len(value))),
                 abspath(wallpaper))

\* the re.sub calls of one role, one after the other
RECURSIVE ApplySubs(_, _)
ApplySubs(subs, text) ==
    IF subs = <<>> THEN text
    ELSE ApplySubs(Tail(subs), re_sub(Head(subs)[1], Head(subs)[2], text))

\* for key, value in scheme.items()
RECURSIVE Substitute(_, _, _)
Substitute(items, wallpaper, text) ==
    IF items = <<>> THEN text
    ELSE Substitute(Tail(items), wallpaper,
                    ApplySubs(RoleSubs(Head(items)[1], Head(items)[2], wallpaper), text))

----------------------------------------------------------------------------
(* Config.load_prefs, util.py 480-503 *)

\* [raised, map]: a missing file gives no preferences, a file that cannot be
\* opened raises OSError to the caller
load_prefs(pf) ==
    IF pf.state = "unreadable" THEN [raised |-> TRUE, map |-> <<>>]
    ELSE IF pf.state = "missing" THEN [raised |-> FALSE, map |-> <<>>]
    ELSE [raised |-> FALSE, map |-> pf.map]

----------------------------------------------------------------------------
(* Config.read, util.py 516-525 *)

\* [raised, config]: ConfigParser.read skips a file it cannot open and the
\* parser keeps no sections; a file that is not a descriptor list raises a
\* configparser error, which `except OSError` does not catch
read(cf) ==
    IF cf.state = "malformed" THEN [raised |-> TRUE, config |-> <<>>]
    ELSE IF cf.state = "unreadable" THEN [raised |-> FALSE, config |-> <<>>]
    ELSE [raised |-> FALSE, config |-> cf.sections]

----------------------------------------------------------------------------
(* Config.generate: one descriptor, util.py 549-621 *)

\* paths under a directory that cannot be written
ReadOnlyPaths == {<<"/", "r", "/", "o">>}

\* lines 558-561: the template path of a descriptor
TemplatePath(template_path_str, parent_dir) ==
    expanduser(IF StartsWith(template_path_str, <<".">>)
               THEN parent_dir \o <<"/">> \o SubSeq(template_path_str, 2, Len(template_path_str))
               ELSE template_path_str)

\* open(path, "r") and read(): [error, data]
ReadFile(fs, path) ==
    LET f == FileOf(path)
    IN  IF f \notin DOMAIN fs THEN [error |-> "OSError", data |-> <<>>]
        ELSE IF fs[f].kind \in {"unreadable", "dir"} THEN [error |-> "OSError", data |-> <<>>]
        ELSE IF fs[f].kind = "binary" THEN [error |-> "UnicodeDecodeError", data |-> <<>>]
        ELSE [error |-> "none", data |-> fs[f].data]

\* a version that opens the output for appending
WriteFileAppend(fs, path, data) ==
    LET f == FileOf(path)
        old == IF f \in DOMAIN fs /\ fs[f].kind = "text" THEN fs[f].data ELSE <<>>
        new == [kind |-> "text", data |-> old \o data]
    IN  IF f \in ReadOnlyPaths THEN [error |-> "OSError", files |-> fs]
        ELSE [error |-> "none",
              files |-> [p \in DOMAIN fs \cup {f} |-> IF p = f THEN new ELSE fs[p]]]

\* the directories above a file
Ancestors(f) == {SubSeq(f, 1, i - 1) : i \in {k \in 2..Len(f) : f[k] = "/"}}

\* output_path.parent.mkdir(parents=True, exist_ok=True): the directories
\* that are missing are made
MkdirParents(fs, f) ==
    [p \in DOMAIN fs \cup Ancestors(f) |->
        IF p \in DOMAIN fs THEN fs[p] ELSE [kind |-> "dir", data |-> <<>>]]

\* what open(output_path, "w") leaves when nothing is written: an empty file
TruncateFirst(output_path, fs) ==
    IF FileOf(output_path) \notin ReadOnlyPaths
    THEN [p \in DOMAIN fs \cup {FileOf(output_path)} |->
             IF p = FileOf(output_path) THEN [kind |-> "text", data |-> <<>>] ELSE fs[p]]
    ELSE fs

\* mkdir(parents=True, exist_ok=True), open(path, "w") and write(): [error, files];
\* mkdir raises when a file stands where a directory is needed, open raises on
\* a directory and on a path that cannot be written
WriteFile(fs, path, data) ==
    LET f == FileOf(path)
        new == [kind |-> "text", data |-> data]
    IN  IF \E a \in Ancestors(f) : a \in DOMAIN fs /\ fs[a].kind # "dir"
        THEN [error |-> "OSError", files |-> fs]
        ELSE IF f \in ReadOnlyPaths \/ (f \in DOMAIN fs /\ fs[f].kind = "dir")
        THEN [error |-> "OSError", files |-> MkdirParents(fs, f)]
        ELSE [error |-> "none",
              files |-> [p \in DOMAIN MkdirParents(fs, f) \cup {f} |->
                            IF p = f THEN new ELSE MkdirParents(fs, f)[p]]]

\* what one descriptor's iteration leaves behind: [status, raised, logs, files];
\* raised is the exception that leaves generate
ItemResult(status, raised, logs, fs) ==
    [status |-> status, raised |-> raised, logs |-> logs, files |-> fs]

\* lines 611-621: the outcome of the write
Written(w, fs) ==
    IF w.error # "none"
    THEN ItemResult("write_failed", "none", <<"warning">>, w.files)
    ELSE ItemResult("rendered", "none", <<"info">>, w.files)

\* a version that opens the output for writing before it reads the template
RenderedOutputFirst(input, output_path, scheme, wallpaper, fs) ==
    IF input.error = "OSError"
    THEN ItemResult("read_failed", "none", <<"error">>, TruncateFirst(output_path, fs))
    ELSE IF input.error # "none" THEN ItemResult("raised", input.error, <<>>, fs)
    ELSE Written(WriteFile(fs, output_path, Substitute(scheme, wallpaper, input.data)), fs)

\* lines 571-621: the template has been opened and read, or not
Rendered(input, output_path, scheme, wallpaper, fs) ==
    IF input.error = "OSError" THEN ItemResult("read_failed", "none", <<"error">>, fs)
    ELSE IF input.error # "none" THEN ItemResult("raised", input.error, <<>>, fs)
    ELSE Written(WriteFile(fs, output_path, Substitute(scheme, wallpaper, input.data)), fs)

\* the body of the loop for one descriptor
ProcessItem(item, scheme, wallpaper, lightmode_enabled, parent_dir, pr, fs) ==
    IF should_skip_template(item.name, pr)
    THEN ItemResult("skipped_feature", "none", <<"debug">>, fs)
    ELSE IF "template_path" \notin DOMAIN item.opts
    THEN ItemResult("raised", "KeyError", <<>>, fs)
    ELSE IF "output_path" \notin DOMAIN item.opts
    THEN ItemResult("raised", "KeyError", <<>>, fs)
    ELSE IF ModeSkips(lightmode_enabled, item.name)
    THEN ItemResult("skipped_mode", "none", <<>>, fs)
    ELSE Rendered(ReadFile(fs, TemplatePath(item.opts["template_path"], parent_dir)),
                  expanduser(item.opts["output_path"]), scheme, wallpaper, fs)

----------------------------------------------------------------------------
(* The inputs of a render pass *)

\* longest descriptor list
MaxDescriptors == 2

\* number of passes run one after the other
MaxPasses == 2

\* the palette in hex form, in the order of scheme.items()
Scheme == <<
    <<<<"p", "r", "i", "m", "a", "r", "y">>, <<"#", "6", "7", "5", "0", "A", "4">>>>,
    <<<<"p", "r", "i", "m", "a", "r", "y", "C", "o", "n", "t", "a", "i", "n", "e", "r">>, <<"#", "E", "A", "D", "D", "F", "F">>>>,
    <<<<"s", "u", "r", "f", "a", "c", "e">>, <<"#", "1", "A", "1", "C", "1", "E">>>> >>

Wallpaper == <<"/", "w", ".", "p", "n", "g">>

\* template texts
TemplateA ==
    <<"c", ":", "@", "{", "p", "r", "i", "m", "a", "r", "y", ".", "h", "e", "x", "}", ";", "@", "{", "p", "r", "i", "m", "a", "r", "y", "}", "|", "@", "{", "p", "r", "i", "m", "a", "r", "y", ".", "r", "g", "b", "}", "|", "@", "{", "p", "r", "i", "m", "a", "r", "y", ".", "r", "g", "b", "a", "5", "0", "}", "|", "@", "{", "p", "r", "i", "m", "a", "r", "y", ".", "h", "u", "e", "}", "|", "@", "{", "p", "r", "i", "m", "a", "r", "y", ".", "s", "a", "t", "}", "|", "@", "{", "p", "r", "i", "m", "a", "r", "y", ".", "l", "i", "g", "h", "t", "}">>
TemplateB ==
    <<"@", "{", "w", "a", "l", "l", "p", "a", "p", "e", "r", "}", " ", "@", "{", "s", "u", "r", "f", "a", "c", "e", ".", "r", "g", "b", "a", "5", "0", "}", " ", "@", "{", "p", "r", "i", "m", "a", "r", "y", "X", "h", "e", "x", "}", " ", "@", "{", "p", "r", "i", "m", "a", "r", "y", "C", "o", "n", "t", "a", "i", "n", "e", "r", ".", "h", "e", "x", "}", "@", "{", "p", "r", "i", "m", "a", "r", "y", "C", "o", "n", "t", "a", "i", "n", "e", "r", "}", "|", "@", "{", "p", "r", "i", "m", "a", "r", "y", "C", "o", "n", "t", "a", "i", "n", "e", "r", ".", "r", "g", "b", "}", "|", "@", "{", "p", "r", "i", "m", "a", "r", "y", "C", "o", "n", "t", "a", "i", "n", "e", "r", ".", "r", "g", "b", "a", "5", "0", "}", "|", "@", "{", "p", "r", "i", "m", "a", "r", "y", "C", "o", "n", "t", "a", "i", "n", "e", "r", ".", "h", "u", "e", "}", "|", "@", "{", "p", "r", "i", "m", "a", "r", "y", "C", "o", "n", "t", "a", "i", "n", "e", "r", ".", "s", "a", "t", "}", "|", "@", "{", "p", "r", "i", "m", "a", "r", "y", "C", "o", "n", "t", "a", "i", "n", "e", "r", ".", "l", "i", "g", "h", "t", "}">>

\* the files before the first pass; ./m does not exist
InitialFiles ==
    (<<"/", "p", "/", "a">> :> [kind |-> "text", data |-> TemplateA])
    @@ (<<"/", "p", "/", "b">> :> [kind |-> "text", data |-> TemplateB])
    @@ (<<"/", "p", "/", "u">> :> [kind |-> "binary", data |-> <<>>])
    @@ (<<"/", "p", "/", "x">> :> [kind |-> "unreadable", data |-> <<>>])
    @@ (<<"/", "q">> :> [kind |-> "text", data |-> TemplateA])
    @@ (<<"/", "p", "/", "d", "/", "a">> :> [kind |-> "text", data |-> TemplateA])
    @@ (<<"/", "p", "/", ".", "h", "/", "a">> :> [kind |-> "text", data |-> TemplateA])
    @@ (<<"/", "h", "/", "t">> :> [kind |-> "text", data |-> TemplateA])
    @@ [d \in {<<"/", "p">>, <<"/", "p", "/", "d">>, <<"/", "p", "/", ".", "h">>,
               <<"/", "h">>, <<"/", "r">>, <<"/", "w">>} |-> [kind |-> "dir", data |-> <<>>]]

\* the descriptors a list is made of: name and the options of the section
D_gtk_dark ==
    [name |-> <<"g", "t", "k", "-", "d", "a", "r", "k">>,
     opts |-> ("template_path" :> <<".", "/", "a">>) @@ ("output_path" :> <<"/", "o", "1">>)]
D_gtk ==
    [name |-> <<"g", "t", "k">>,
     opts |-> ("template_path" :> <<".", "/", "a">>) @@ ("output_path" :> <<"/", "o", "2">>)]
D_Discord_Dark ==
    [name |-> <<"D", "i", "s", "c", "o", "r", "d", "-", "D", "a", "r", "k">>,
     opts |-> ("template_path" :> <<".", "/", "b">>) @@ ("output_path" :> <<"/", "o", "1">>)]
D_vscode_discord ==
    [name |-> <<"v", "s", "c", "o", "d", "e", "-", "d", "i", "s", "c", "o", "r", "d">>,
     opts |-> ("template_path" :> <<".", "/", "b">>) @@ ("output_path" :> <<"/", "o", "2">>)]
D_x_dark ==
    [name |-> <<"x", "-", "d", "a", "r", "k">>,
     opts |-> ("output_path" :> <<"/", "o", "1">>)]
D_y ==
    [name |-> <<"y">>,
     opts |-> ("template_path" :> <<".", "/", "m">>) @@ ("output_path" :> <<"/", "o", "2">>)]
D_bin_dark ==
    [name |-> <<"b", "i", "n", "-", "d", "a", "r", "k">>,
     opts |-> ("template_path" :> <<".", "/", "u">>) @@ ("output_path" :> <<"/", "o", "2">>)]
D_ro_dark ==
    [name |-> <<"r", "o", "-", "d", "a", "r", "k">>,
     opts |-> ("template_path" :> <<".", "/", "a">>) @@ ("output_path" :> <<"/", "r", "/", "o">>)]
D_over_dark ==
    [name |-> <<"o", "v", "e", "r", "-", "d", "a", "r", "k">>,
     opts |-> ("template_path" :> <<".", "/", "b">>) @@ ("output_path" :> <<"/", "p", "/", "a">>)]
D_darker ==
    [name |-> <<"d", "a", "r", "k", "e", "r">>,
     opts |-> ("template_path" :> <<".", "/", "a">>) @@ ("output_path" :> <<"/", "o", "1">>)]
D_noout ==
    [name |-> <<"n", "o", "o", "u", "t">>,
     opts |-> ("template_path" :> <<".", "/", "a">>)]
D_locked_dark ==
    [name |-> <<"l", "o", "c", "k", "e", "d", "-", "d", "a", "r", "k">>,
     opts |-> ("template_path" :> <<".", "/", "x">>) @@ ("output_path" :> <<"/", "o", "2">>)]

D_chain_dark ==
    [name |-> <<"c", "h", "a", "i", "n", "-", "d", "a", "r", "k">>,
     opts |-> ("template_path" :> <<"/", "o", "1">>) @@ ("output_path" :> <<"/", "o", "2">>)]

\* descriptors whose template path is relative in one of the other ways, or
\* starts at the home directory
D_up_dark ==
    [name |-> <<"u", "p", "-", "d", "a", "r", "k">>,
     opts |-> ("template_path" :> <<".", ".", "/", "q">>) @@ ("output_path" :> <<"/", "o", "1">>)]
D_dir_dark ==
    [name |-> <<"d", "i", "r", "-", "d", "a", "r", "k">>,
     opts |-> ("template_path" :> <<"d", "/", "a">>) @@ ("output_path" :> <<"/", "o", "1">>)]
D_hidden_dark ==
    [name |-> <<"h", "i", "d", "d", "e", "n", "-", "d", "a", "r", "k">>,
     opts |-> ("template_path" :> <<".", "h", "/", "a">>) @@ ("output_path" :> <<"/", "o", "1">>)]
D_home_dark ==
    [name |-> <<"h", "o", "m", "e", "-", "d", "a", "r", "k">>,
     opts |-> ("template_path" :> <<"~", "/", "t">>) @@ ("output_path" :> <<"/", "o", "1">>)]

PathDescriptors == {D_up_dark, D_dir_dark, D_hidden_dark, D_home_dark}

\* descriptors whose output lies in a directory that does not exist: one of
\* each mode, the dark one with a template that is missing, and one of an
\* optional feature no preference file enables
D_deep ==
    [name |-> <<"d", "e", "e", "p">>,
     opts |-> ("template_path" :> <<".", "/", "a">>) @@ ("output_path" :> <<"/", "n", "/", "o">>)]
D_deep_dark ==
    [name |-> <<"d", "e", "e", "p", "-", "d", "a", "r", "k">>,
     opts |-> ("template_path" :> <<".", "/", "m">>) @@ ("output_path" :> <<"/", "n", "/", "o">>)]
D_spotify_dark ==
    [name |-> <<"s", "p", "o", "t", "i", "f", "y", "-", "d", "a", "r", "k">>,
     opts |-> ("template_path" :> <<".", "/", "a">>) @@ ("output_path" :> <<"/", "n", "/", "o">>)]

DeepDescriptors == {D_deep, D_deep_dark, D_spotify_dark}

Descriptors == {D_chain_dark, D_gtk_dark, D_gtk, D_Discord_Dark, D_vscode_discord, D_x_dark, D_y, D_bin_dark, D_ro_dark, D_over_dark, D_darker, D_noout, D_locked_dark}

\* the lists: every list of up to MaxDescriptors descriptors, and each of the
\* path descriptors and of the descriptors with an output directory to make
\* alone
Configs ==
    UNION {[1..n -> Descriptors] : n \in 1..MaxDescriptors}
    \cup {<<d>> : d \in PathDescriptors \cup DeepDescriptors}

\* the descriptor list file: readable with its sections, impossible to open,
\* or readable and not in the format of a descriptor list
ConfigFiles ==
    {[state |-> "ok", sections |-> c] : c \in Configs}
    \cup {[state |-> "unreadable", sections |-> <<>>],
          [state |-> "malformed", sections |-> <<>>]}

\* the states of the preference file
PrefsFiles == {
    [state |-> "missing", map |-> <<>>],
    [state |-> "unreadable", map |-> <<>>],
    [state |-> "ok", map |-> ("THEME_DISCORD" :> TRUE)],
    [state |-> "ok", map |-> ("THEME_DISCORD" :> TRUE) @@ ("THEME_VSCODE" :> TRUE)],
    [state |-> "ok", map |-> ("THEME_DISCORD" :> FALSE) @@ ("THEME_VSCODE" :> TRUE)] }

----------------------------------------------------------------------------
(* Config.generate as a process *)

GenInit ==
    /\ CalcQuiet
    /\ SubQuiet /\ AppQuiet /\ ArgsQuiet
    /\ config_file \in ConfigFiles
    /\ config = <<>>
    /\ prefs_file \in PrefsFiles
    /\ lightmode \in BOOLEAN
    /\ files = InitialFiles
    /\ pc = "start"
    /\ idx = 1
    /\ prefs = <<>>
    /\ outcome = <<>>
    /\ gen_log = <<>>
    /\ npass = 0
    /\ history = <<>>

\* Config.read(filename), lines 516-525: the list the caller gets, or the
\* exception that reaches the caller
ConfigRead ==
    LET r == read(config_file)
    IN  /\ pc = "start"
        /\ pc' = IF r.raised THEN "read_raised" ELSE "idle"
        /\ config' = r.config
        /\ UNCHANGED <<config_file, prefs_file, lightmode, files, idx, prefs, outcome,
                       gen_log, npass, history, call, calc_log, ext_vars>>

\* generate is called: line 547, prefs = cls.load_prefs()
GenerateStart ==
    LET p == load_prefs(prefs_file)
    IN  /\ pc \in {"idle", "done", "raised"}
        /\ npass < MaxPasses
        /\ npass' = npass + 1
        /\ prefs' = p.map
        /\ idx' = 1
        /\ outcome' = <<>>
        /\ gen_log' = <<>>
        /\ pc' = IF p.raised THEN "raised"
                 ELSE IF Len(config) = 0 THEN "done" ELSE "loop"
        /\ history' = Append(history, [start |-> files, end |-> files,
                                       finished |-> p.raised \/ Len(config) = 0])
        /\ UNCHANGED <<config_file, config, prefs_file, lightmode, files, call, calc_log,
                       ext_vars>>

\* the loop moves on after an iteration that ended with r
StepWith(r) ==
    /\ outcome' = Append(outcome, r.status)
    /\ gen_log' = gen_log \o [k \in 1..Len(r.logs) |-> <<r.logs[k], idx>>]
    /\ files' = r.files
    /\ pc' = IF r.raised # "none" THEN "raised"
             ELSE IF idx = Len(config) THEN "done" ELSE "loop"
    /\ idx' = IF r.raised # "none" THEN idx ELSE idx + 1
    /\ history' = IF r.raised # "none" \/ idx = Len(config)
                  THEN [history EXCEPT ![Len(history)] =
                            [@ EXCEPT !.end = r.files, !.finished = TRUE]]
                  ELSE history

\* one iteration of `for item in config.sections()`
GenerateStep ==
    /\ pc = "loop"
    /\ idx <= Len(config)
    /\ StepWith(ProcessItem(config[idx], Scheme, Wallpaper, lightmode, ParentDir,
                            prefs, files))
    /\ UNCHANGED <<config_file, config, prefs_file, lightmode, prefs, npass, call,
                   calc_log, ext_vars>>

GenNext == ConfigRead \/ GenerateStart \/ GenerateStep

SpecGen == GenInit /\ [][GenNext]_vars

----------------------------------------------------------------------------
(* Properties of the render pass *)

\* the names that end in the dark marker, whatever the case of the letters
DarkNames == {D_gtk_dark.name, D_Discord_Dark.name, D_x_dark.name, D_bin_dark.name,
              D_ro_dark.name, D_over_dark.name, D_locked_dark.name, D_chain_dark.name,
              D_up_dark.name, D_dir_dark.name, D_hidden_dark.name, D_home_dark.name,
              D_deep_dark.name, D_spotify_dark.name}

\* the descriptor went past both filters
PastFilters(st) == st \in {"rendered", "read_failed", "write_failed"}

\* C2: a descriptor whose name ends in the dark marker is never rendered in a
\* light-mode pass, one whose name does not end in it is never rendered in a
\* dark-mode pass, and a descriptor whose mode agrees with the pass is not
\* skipped by the mode filter.
C2_ModeFilter ==
    \A i \in 1..Len(outcome) :
        /\ PastFilters(outcome[i]) => ((config[i].name \in DarkNames) = ~lightmode)
        /\ outcome[i] = "skipped_mode" => ((config[i].name \in DarkNames) = lightmode)

\* a light-mode pass skips gtk-dark and renders gtk
C2_Witness ==
    /\ lightmode
    /\ config = <<D_gtk_dark, D_gtk>>
    /\ outcome = <<"skipped_mode", "rendered">>

\* the preference keys of the optional-feature markers a name contains
MarkerPrefs(name) ==
    IF name = D_Discord_Dark.name THEN {"THEME_DISCORD"}
    ELSE IF name = D_vscode_discord.name THEN {"THEME_VSCODE", "THEME_DISCORD"}
    ELSE IF name = D_spotify_dark.name THEN {"THEME_SPOTIFY"}
    ELSE {}

\* C3: a descriptor whose name contains an optional-feature marker is
\* rendered only if the matching preference key is present and true (a missing
\* key counts as disabled); a descriptor whose name contains no marker is
\* never skipped by feature gating.
C3_FeatureGating ==
    \A i \in 1..Len(outcome) :
        /\ outcome[i] = "rendered" =>
               \A k \in MarkerPrefs(config[i].name) : k \in DOMAIN prefs /\ prefs[k]
        /\ outcome[i] = "skipped_feature" =>
               \E k \in MarkerPrefs(config[i].name) : ~(k \in DOMAIN prefs /\ prefs[k])

\* THEME_VSCODE is missing: vscode-discord is skipped, gtk after it is rendered
C3_Witness ==
    /\ lightmode
    /\ prefs = ("THEME_DISCORD" :> TRUE)
    /\ config = <<D_vscode_discord, D_gtk>>
    /\ outcome = <<"skipped_feature", "rendered">>

\* C4: a failure confined to one descriptor (missing or unreadable template,
\* undecodable template text, missing template_path/output_path entry,
\* unwritable output) never raises out of the pass: only a preference file
\* that cannot be read ends a pass with an exception.
C4_Isolation == pc = "raised" => prefs_file.state = "unreadable"

\* the template a descriptor reads and the file it writes
TemplateFileOf(item) == FileOf(TemplatePath(item.opts["template_path"], ParentDir))
OutputFileOf(item) == FileOf(expanduser(item.opts["output_path"]))

\* this step renders the descriptor at idx
RendersNow == pc = "loop" /\ outcome' = Append(outcome, "rendered")

Roles == {Scheme[i][1] : i \in 1..Len(Scheme)}

Forms == {<<>>, <<".", "h", "e", "x">>, <<".", "r", "g", "b">>,
          <<".", "r", "g", "b", "a", "5", "0">>, <<".", "h", "u", "e">>,
          <<".", "s", "a", "t">>, <<".", "l", "i", "g", "h", "t">>}

HasAllForms(text, role) == \A f \in Forms : Contains(<<"@", "{">> \o role \o f \o <<"}">>, text)

\* no '@{role}' and no '@{role.' is left
NoRoleToken(text, role) ==
    /\ ~Contains(<<"@", "{">> \o role \o <<"}">>, text)
    /\ ~Contains(<<"@", "{">> \o role \o <<".">>, text)

\* C5: for every role, a template that contains all seven placeholder forms
\* of the role contains, after rendering, no '@{'-prefixed token of that role.
C5_Coverage ==
    [][\A role \in Roles :
          (RendersNow /\ HasAllForms(files[TemplateFileOf(config[idx])].data, role))
              => NoRoleToken(files'[OutputFileOf(config[idx])].data, role)]_vars

\* gtk-dark rendered from the template with the seven forms of primary
C5_Witness ==
    /\ ~lightmode
    /\ config = <<D_gtk_dark>>
    /\ outcome = <<"rendered">>
    /\ history[npass].start[TemplateFileOf(D_gtk_dark)].data = TemplateA
    /\ NoRoleToken(files[OutputFileOf(D_gtk_dark)].data, Scheme[1][1])

SameTemplates(fs1, fs2) ==
    \A i \in 1..Len(config) :
        "template_path" \in DOMAIN config[i].opts =>
            LET t == TemplateFileOf(config[i])
            IN  /\ (t \in DOMAIN fs1) = (t \in DOMAIN fs2)
                /\ t \in DOMAIN fs1 => fs1[t] = fs2[t]

\* C7: a pass run again with the same palette, wallpaper, mode, descriptor
\* list, preferences and template files leaves every file as the pass before
\* it left it.
C7_Idempotent ==
    \A k \in 1..(Len(history) - 1) :
        (/\ history[k + 1].finished
         /\ SameTemplates(history[k].start, history[k + 1].start))
            => history[k + 1].end = history[k].end

\* two finished passes that rendered gtk-dark
C7_Witness ==
    /\ ~lightmode
    /\ config = <<D_gtk_dark>>
    /\ npass = 2
    /\ pc = "done"
    /\ outcome = <<"rendered">>
    /\ history[2].end = history[1].end
    /\ OutputFileOf(D_gtk_dark) \in DOMAIN files

----------------------------------------------------------------------------
(* What a pass reports, and what it does when its inputs cannot be read *)

\* the log calls of this pass made for descriptor k
ReportsOf(k) == {j \in 1..Len(gen_log) : gen_log[j][2] = k}

\* C11: every descriptor the pass has rendered, skipped or failed on has
\* exactly one report in the log of the pass; none is processed or skipped
\* without one.
C11_OneReport ==
    \A k \in 1..Len(outcome) : Cardinality(ReportsOf(k)) = 1

\* C12: when the descriptor list file cannot be read, Config.read hands the
\* caller an error and not a list; when the preference file cannot be read,
\* the pass ends in an error with no descriptor processed.
C12_SystemicFatal ==
    /\ (config_file.state = "unreadable" /\ pc # "start") => pc = "read_raised"
    /\ (prefs_file.state = "unreadable" /\ npass > 0) => (pc = "raised" /\ outcome = <<>>)

\* the file a template path names when a relative path is joined to the base
\* directory and an absolute or home path is taken as it is
AgainstBase(path, base) ==
    IF StartsWith(path, <<"/">>) THEN FileOf(path)
    ELSE IF path = <<"~">> \/ StartsWith(path, <<"~", "/">>) THEN FileOf(expanduser(path))
    ELSE FileOf(base \o <<"/">> \o path)

\* descriptor k of the list has a template that, resolved in that way, is one
\* of the template texts on disk
HasTemplateAgainstBase(k) ==
    /\ "template_path" \in DOMAIN config[k].opts
    /\ "output_path" \in DOMAIN config[k].opts
    /\ AgainstBase(config[k].opts["template_path"], ParentDir) \in DOMAIN InitialFiles
    /\ InitialFiles[AgainstBase(config[k].opts["template_path"], ParentDir)].kind = "text"

\* C16: a descriptor that passes the two filters and whose template path,
\* joined to parent_dir when relative ('./x', '../x', 'dir/x', '.hidden/x')
\* and taken as it is when absolute or under '~', names a template text on
\* disk has that template read (it is rendered, or only its write fails).
C16_RelativeToBase ==
    \A k \in 1..Len(outcome) :
        (HasTemplateAgainstBase(k) /\ outcome[k] \notin {"skipped_feature", "skipped_mode"})
            => outcome[k] \in {"rendered", "write_failed"}

\* C26: the iteration of a descriptor that is skipped (feature disabled or
\* mode mismatch) or whose template cannot be read (it cannot be opened, or
\* reading it raises) leaves every file and every directory as it was: the
\* output is not created, emptied or rewritten and no directory is made for it.
C26_SkippedUntouched ==
    [][(/\ pc = "loop"
        /\ Len(outcome') = Len(outcome) + 1
        /\ outcome'[Len(outcome')] \in {"skipped_feature", "skipped_mode", "read_failed",
                                        "raised"})
           => files' = files]_vars

\* a dark pass has gone over a descriptor whose template is missing and whose
\* output directory does not exist: neither the directory nor the output is there
C26_Witness ==
    /\ ~lightmode
    /\ config = <<D_deep_dark>>
    /\ outcome = <<"read_failed">>
    /\ <<"/", "n">> \notin DOMAIN files
    /\ <<"/", "n", "/", "o">> \notin DOMAIN files

----------------------------------------------------------------------------
(* The substitution loop of Config.generate, util.py 579-609, on its own *)

\* number of pieces a template text is put together from
MaxTokens == 2

\* pieces of template text: placeholders of roles of which one is a prefix of
\* another, a token one pattern's '.' matches, the wallpaper placeholder and
\* two halves of a placeholder
Tokens == {
    <<"@", "{", "p", "r", "i", "m", "a", "r", "y", "}">>,
    <<"@", "{", "p", "r", "i", "m", "a", "r", "y", ".", "h", "e", "x", "}">>,
    <<"@", "{", "p", "r", "i", "m", "a", "r", "y", "C", "o", "n", "t", "a", "i", "n", "e", "r", "}">>,
    <<"@", "{", "p", "r", "i", "m", "a", "r", "y", "C", "o", "n", "t", "a", "i", "n", "e", "r", ".", "r", "g", "b", "}">>,
    <<"@", "{", "s", "u", "r", "f", "a", "c", "e", ".", "l", "i", "g", "h", "t", "}">>,
    <<"@", "{", "p", "r", "i", "m", "a", "r", "y", "X", "h", "e", "x", "}">>,
    <<"@", "{", "w", "a", "l", "l", "p", "a", "p", "e", "r", "}">>,
    <<"@", "{", "p", "r", "i", "m", "a", "r", "y">>,
    <<"C", "o", "n", "t", "a", "i", "n", "e", "r", "}">>,
    <<";">> }

RECURSIVE Flatten(_)
Flatten(ts) == IF ts = <<>> THEN <<>> ELSE Head(ts) \o Flatten(Tail(ts))

SubTexts == {Flatten(ts) : ts \in UNION {[1..n -> Tokens] : n \in 1..MaxTokens}}

\* the orders in which scheme.items() can hand out the roles of the palette
RoleOrders ==
    {o \in [1..Len(Scheme) -> 1..Len(Scheme)] :
        \A a, b \in 1..Len(Scheme) : o[a] = o[b] => a = b}

SubInit ==
    /\ subst \in {[text |-> t, order |-> o, i |-> 1, out |-> t, applied |-> <<>>,
                     renderer |-> "none", j |-> 1, addon |-> t] :
                      t \in SubTexts, o \in RoleOrders}
    /\ CalcQuiet /\ GenQuiet /\ AppQuiet /\ ArgsQuiet

\* the re.sub calls of one role applied to output_data
SubRoleWith(subs) ==
    subst' = [subst EXCEPT !.i = @ + 1,
                           !.out = ApplySubs(subs, @),
                           !.applied = @ \o [k \in 1..Len(subs) |-> subs[k][1]]]

\* one iteration of `for key, value in scheme.items()`
SubRole ==
    /\ subst.i <= Len(subst.order)
    /\ SubRoleWith(RoleSubs(Scheme[subst.order[subst.i]][1],
                            Scheme[subst.order[subst.i]][2], Wallpaper))
    /\ UNCHANGED <<calc_vars, gen_vars, app, argst>>

\* the re.sub calls of one role in _apply_ui_improvements_addon, domain.py
\* 462-470: the bare, the .hex and the .rgb pattern, the .rgb value joined
\* with ',' alone
ui_improvements_subs(key, value) ==
    << <<Placeholder(key), SubSeq(value, 2, Len(value))>>,
       <<Placeholder(key \o <<".", "h", "e", "x">>), value>>,
       <<Placeholder(key \o <<".", "r", "g", "b">>),
         rgb_value_compact(hex_to_rgb(SubSeq(value, 2, Len(value))))>> >>

\* the re.sub calls of one role in _install_system_gtk4_theme, domain.py
\* 539-547: the same three statements
chrome_gtk4_subs(key, value) ==
    << <<Placeholder(key), SubSeq(value, 2, Len(value))>>,
       <<Placeholder(key \o <<".", "h", "e", "x">>), value>>,
       <<Placeholder(key \o <<".", "r", "g", "b">>),
         rgb_value_compact(hex_to_rgb(SubSeq(value, 2, Len(value))))>> >>

AddonRenderers == {"ui_improvements", "chrome_gtk4"}

AddonSubs(renderer, key, value) ==
    IF renderer = "ui_improvements" THEN ui_improvements_subs(key, value)
    ELSE chrome_gtk4_subs(key, value)

\* one iteration of the loop of an addon renderer over the same text and the
\* same palette; apply_theme calls the addon renderers after Config.generate
\* (domain.py 268-298)
AddonRole(renderer) ==
    /\ subst.i > Len(subst.order)
    /\ subst.j <= Len(subst.order)
    /\ subst.renderer \in {"none", renderer}
    /\ subst' = [subst EXCEPT
                    !.renderer = renderer,
                    !.j = @ + 1,
                    !.addon = ApplySubs(AddonSubs(renderer,
                                                  Scheme[subst.order[subst.j]][1],
                                                  Scheme[subst.order[subst.j]][2]), @)]
    /\ UNCHANGED <<calc_vars, gen_vars, app, argst>>

SubNext ==
    \/ SubRole
    \/ \E renderer \in AddonRenderers : AddonRole(renderer)

SpecSub == SubInit /\ [][SubNext]_vars

\* the suffixes of the six longer placeholder forms
Suffixes == {
    <<".", "h", "e", "x">>,
    <<".", "r", "g", "b">>,
    <<".", "r", "g", "b", "a", "5", "0">>,
    <<".", "h", "u", "e">>,
    <<".", "s", "a", "t">>,
    <<".", "l", "i", "g", "h", "t">> }

\* where a pattern stands in the sequence of re.sub calls made so far
AppliedAt(pat) == CHOOSE k \in 1..Len(subst.applied) : subst.applied[k] = pat

WasApplied(pat) == \E k \in 1..Len(subst.applied) : subst.applied[k] = pat

\* C14: for every role, each of the suffixed patterns (.hex, .rgb, .rgba50,
\* .hue, .sat, .light) has been applied by the time the bare pattern of that
\* role is applied.
C14_SuffixFirst ==
    \A r \in 1..Len(Scheme) :
        WasApplied(Placeholder(Scheme[r][1])) =>
            \A sfx \in Suffixes :
                /\ WasApplied(Placeholder(Scheme[r][1] \o sfx))
                /\ AppliedAt(Placeholder(Scheme[r][1] \o sfx))
                       < AppliedAt(Placeholder(Scheme[r][1]))

\* number of places of s where sb stands
Occurrences(sb, s) ==
    Cardinality({i \in 1..(Len(s) - Len(sb) + 1) : SubSeq(s, i, i + Len(sb) - 1) = sb})

\* the roles the loop has not come to yet
Pending == {subst.order[j] : j \in subst.i..Len(subst.order)}

\* C15: whatever the order in which the roles are iterated, the text the
\* loop ends with is the text the declared order gives, and the placeholders
\* of a role are left as they were until the iteration of that role.
C15_OrderImmaterial ==
    /\ (subst.order # <<>> /\ subst.i > Len(subst.order)) =>
           subst.out = Substitute(Scheme, Wallpaper, subst.text)
    /\ \A r \in Pending : \A sfx \in Suffixes \cup {<<>>} :
           Occurrences(Placeholder(Scheme[r][1] \o sfx), subst.out)
               = Occurrences(Placeholder(Scheme[r][1] \o sfx), subst.text)

\* the roles taken in reverse order on a text with the placeholder of a role
\* next to one of the role it is a prefix of
C15_Witness ==
    /\ subst.order = <<3, 2, 1>>
    /\ subst.i = 4
    /\ subst.text = <<"@", "{", "p", "r", "i", "m", "a", "r", "y", "}", "@", "{", "p", "r", "i", "m", "a", "r", "y", "C", "o", "n", "t", "a", "i", "n", "e", "r", ".", "r", "g", "b", "}">>
    /\ subst.out = <<"6", "7", "5", "0", "A", "4", "r", "g", "b", "(", "2", "3", "4", ",", " ", "2", "2", "1", ",", " ", "2", "5", "5", ")">>

\* C21: for the same palette and the same template text, the loop of an
\* addon renderer ends with the text the loop of Config.generate ends with.
C21_SameAsGenerate ==
    (subst.order # <<>> /\ subst.i > Len(subst.order) /\ subst.j > Len(subst.order)) =>
        subst.addon = subst.out

----------------------------------------------------------------------------
(* ApplierDomain, applier/domain.py: its calls, the palette of a pass and _reload_apps *)

AppWallpapers == {"/w1.png", "/w2.png"}
SeedColours == {"#ff0000"}
OverrideColours == {"#000000", "#ffffff"}
AppRoles == {"primary", "surface"}

\* the theme generator: the light and the dark palette of a wallpaper
themeFromImage(image) ==
    IF image = "/w1.png"
    THEN [light |-> [primary |-> "#6750A4", surface |-> "#FFFBFE"],
          dark |-> [primary |-> "#D0BCFF", surface |-> "#1C1B1F"]]
    ELSE [light |-> [primary |-> "#006E1C", surface |-> "#FCFDF6"],
          dark |-> [primary |-> "#78DC77", surface |-> "#1A1C19"]]

\* the theme generator: the light and the dark palette of a seed colour
themeFromSourceColor(color) ==
    [light |-> [primary |-> "#C00100", surface |-> "#FFFBFF"],
     dark |-> [primary |-> "#FFB4A8", surface |-> "#201A19"]]

\* Scheme(theme, lightmode).to_hex(), util.py 654-680
SchemeToHex(theme, light) == IF light THEN theme.light ELSE theme.dark

\* _get_scheme(color), domain.py 644-653: [raised, scheme]
get_scheme(opts, color) ==
    IF color = "None"
    THEN IF opts.wallpaper_path = "None"
         THEN [raised |-> "ValueError", scheme |-> NoScheme]
         ELSE [raised |-> "none",
               scheme |-> SchemeToHex(themeFromImage(opts.wallpaper_path),
                                      opts.lightmode_enabled)]
    ELSE [raised |-> "none",
          scheme |-> SchemeToHex(themeFromSourceColor(color), opts.lightmode_enabled)]

\* the GenerationOptions an ApplierDomain is constructed with
AppInit ==
    /\ app \in {[NoApp EXCEPT !.wallpaper_path = w, !.lightmode_enabled = l,
                              !.silent = q, !.buttons_left_enabled = b,
                              !.ui_improvements_enabled = u, !.pc = "ready"] :
                    w \in AppWallpapers \cup {"None"}, l \in BOOLEAN, q \in BOOLEAN,
                    b \in BOOLEAN, u \in BOOLEAN}
    /\ CalcQuiet /\ GenQuiet /\ SubQuiet /\ ArgsQuiet

\* no apply_theme is under way
AppAtRest == app.pc \in {"ready", "applied", "apply_raised", "reload_raised"}

\* the record of a call other than apply_theme: the operation, the exception
\* it raised, and nothing of what a pass of apply_theme leaves behind
Called(r, op, raised) ==
    [r EXCEPT !.op = op, !.raised = raised, !.pc = "ready",
              !.rendered_with = NoScheme, !.reload_arg = NoScheme,
              !.effects = <<>>, !.pass_effects = <<>>]

\* set_wallpaper_path(path), domain.py 181-182
SetWallpaperPath(path) ==
    /\ AppAtRest
    /\ app' = Called([app EXCEPT !.wallpaper_path = path], "set_wallpaper_path", "none")
    /\ UNCHANGED <<calc_vars, gen_vars, subst, argst>>

\* set_lightmode_enabled(enabled), domain.py 184-185
SetLightmodeEnabled(enabled) ==
    /\ AppAtRest
    /\ app' = Called([app EXCEPT !.lightmode_enabled = enabled],
                     "set_lightmode_enabled", "none")
    /\ UNCHANGED <<calc_vars, gen_vars, subst, argst>>

\* set_scheme_color_based_on_key(key, color), domain.py 187-190
SetSchemeColorBasedOnKey(key, color) ==
    /\ AppAtRest
    /\ app' = IF app.scheme = NoScheme
              THEN Called(app, "set_scheme_color_based_on_key", "ValueError")
              ELSE Called([app EXCEPT !.scheme = [@ EXCEPT ![key] = color]],
                          "set_scheme_color_based_on_key", "none")
    /\ UNCHANGED <<calc_vars, gen_vars, subst, argst>>

\* the scheme after reset_scheme or the first read of the scheme property
SchemeFrom(r, op) ==
    app' = IF r.raised # "none"
           THEN Called(app, op, r.raised)
           ELSE Called([app EXCEPT !.scheme = r.scheme], op, "none")

\* reset_scheme(color), domain.py 192-193
ResetScheme(color) ==
    /\ AppAtRest
    /\ SchemeFrom(get_scheme(app, color), "reset_scheme")
    /\ UNCHANGED <<calc_vars, gen_vars, subst, argst>>

\* a version of the scheme property that computes the palette on every read
SchemePropertyFresh ==
    /\ AppAtRest
    /\ SchemeFrom(get_scheme(app, "None"), "scheme")
    /\ UNCHANGED <<calc_vars, gen_vars, subst, argst>>

\* the scheme property, domain.py 199-203: computed on the first read, the
\* stored palette on every later one
SchemeProperty ==
    /\ AppAtRest
    /\ SchemeFrom(IF app.scheme = NoScheme
                  THEN get_scheme(app, "None")
                  ELSE [raised |-> "none", scheme |-> app.scheme], "scheme")
    /\ UNCHANGED <<calc_vars, gen_vars, subst, argst>>

\* what apply_theme has done by line 266, before the palette is taken: the
\* theme assets copied when assets/<theme> exists (225-229), the legacy theme
\* removed when it exists (261-265)
EffectsBeforeScheme(assets_exist, legacy_exists) ==
    (IF assets_exist THEN <<"copytree">> ELSE <<>>)
        \o (IF legacy_exists THEN <<"rmtree">> ELSE <<>>)

\* what apply_theme has done when it comes to _reload_apps, domain.py 225-307
EffectsOfPass(opts, assets_exist, legacy_exists) ==
    EffectsBeforeScheme(assets_exist, legacy_exists)
        \o <<"Config.generate">>
        \o (IF opts.ui_improvements_enabled THEN <<"ui_improvements">> ELSE <<>>)
        \o <<"papirus">>

\* a version without the check of lines 206-207: a missing wallpaper path is
\* found when _get_scheme is called at line 267
ApplyWithLateCheck(r, assets_exist, legacy_exists) ==
    app' = IF r.raised # "none"
           THEN [app EXCEPT !.op = "apply_theme", !.pc = "apply_raised",
                            !.raised = r.raised,
                            !.rendered_with = NoScheme, !.reload_arg = NoScheme,
                            !.effects = <<>>,
                            !.pass_effects = EffectsBeforeScheme(assets_exist, legacy_exists)]
           ELSE [app EXCEPT !.op = "apply_theme", !.pc = "rendered",
                            !.raised = "none",
                            !.rendered_with = r.scheme, !.reload_arg = NoScheme,
                            !.effects = <<>>,
                            !.pass_effects = EffectsOfPass(app, assets_exist, legacy_exists)]

\* apply_theme up to the call of _reload_apps, domain.py 205-307: the check
\* of the wallpaper path, the palette the templates are rendered with and
\* what the pass has done
ApplyWith(r, assets_exist, legacy_exists) ==
    app' = IF app.wallpaper_path = "None"
           THEN [app EXCEPT !.op = "apply_theme", !.pc = "apply_raised",
                            !.raised = "ValueError",
                            !.rendered_with = NoScheme, !.reload_arg = NoScheme,
                            !.effects = <<>>, !.pass_effects = <<>>]
           ELSE IF r.raised # "none"
           THEN [app EXCEPT !.op = "apply_theme", !.pc = "apply_raised",
                            !.raised = r.raised,
                            !.rendered_with = NoScheme, !.reload_arg = NoScheme,
                            !.effects = <<>>,
                            !.pass_effects = EffectsBeforeScheme(assets_exist, legacy_exists)]
           ELSE [app EXCEPT !.op = "apply_theme", !.pc = "rendered",
                            !.raised = "none",
                            !.rendered_with = r.scheme, !.reload_arg = NoScheme,
                            !.effects = <<>>,
                            !.pass_effects = EffectsOfPass(app, assets_exist, legacy_exists)]

\* line 267: scheme = self._generation_options.scheme or self._get_scheme()
ApplyTheme(assets_exist, legacy_exists) ==
    /\ AppAtRest
    /\ ApplyWith(IF app.scheme # NoScheme
                 THEN [raised |-> "none", scheme |-> app.scheme]
                 ELSE get_scheme(app, "None"),
                 assets_exist, legacy_exists)
    /\ UNCHANGED <<calc_vars, gen_vars, subst, argst>>

\* def reload_apps(lightmode_enabled, scheme, wallpaper_path), util.py 306
reload_apps_params == <<"lightmode_enabled", "scheme", "wallpaper_path">>

\* the call of domain.py 635-637: one positional argument and scheme=...
ReloadAppsCall == [positional |-> 1, keywords |-> {"scheme"}]

\* the parameters a call leaves without a value
MissingArgs(params, c) ==
    {params[i] : i \in 1..Len(params)}
        \ ({params[i] : i \in 1..c.positional} \cup c.keywords)

\* what _reload_apps does after the button layout, domain.py 635-642: the
\* call of reload_apps raises TypeError when a parameter is left without a
\* value, and nothing after it runs
ReloadEffects(opts) ==
    IF MissingArgs(reload_apps_params, ReloadAppsCall) # {}
    THEN [effects |-> <<"button_layout">>, raised |-> "TypeError"]
    ELSE [effects |-> <<"button_layout", "reload_apps", "set_wallpaper">>
                          \o (IF opts.silent THEN <<>> ELSE <<"notify">>),
          raised |-> "none"]

\* the arguments of the call are evaluated, then the call is made
ReloadWith(arg, e) ==
    app' = IF arg.raised # "none"
           THEN [app EXCEPT !.pc = "reload_raised", !.raised = arg.raised,
                            !.effects = <<"button_layout">>]
           ELSE [app EXCEPT !.pc = IF e.raised = "none" THEN "applied" ELSE "reload_raised",
                            !.raised = e.raised,
                            !.reload_arg = arg.scheme,
                            !.effects = e.effects]

\* _reload_apps, domain.py 620-642, reached at the end of apply_theme
ReloadApps ==
    /\ app.pc = "rendered"
    /\ ReloadWith(get_scheme(app, "None"), ReloadEffects(app))
    /\ UNCHANGED <<calc_vars, gen_vars, subst, argst>>

AppNext ==
    \/ \E path \in AppWallpapers : SetWallpaperPath(path)
    \/ \E enabled \in BOOLEAN : SetLightmodeEnabled(enabled)
    \/ \E key \in AppRoles, color \in OverrideColours : SetSchemeColorBasedOnKey(key, color)
    \/ \E color \in SeedColours \cup {"None"} : ResetScheme(color)
    \/ SchemeProperty
    \/ \E assets_exist \in BOOLEAN, legacy_exists \in BOOLEAN :
           ApplyTheme(assets_exist, legacy_exists)
    \/ ReloadApps

SpecApply == AppInit /\ [][AppNext]_vars

\* C17: once a pass has come to the call of reload_apps, the palette handed
\* to reload_apps is the palette the templates of that pass were rendered
\* with, role overrides included.
C17_SamePalette ==
    app.pc \in {"applied", "reload_raised"} => app.reload_arg = app.rendered_with

\* C19: a pass that has reached _reload_apps has set the button layout,
\* called reload_apps, called set_wallpaper and, unless silent, sent the
\* notification, in this order.
C19_ReloadSequence ==
    app.pc \in {"applied", "reload_raised"} =>
        app.effects = <<"button_layout", "reload_apps", "set_wallpaper">>
                          \o (IF app.silent THEN <<>> ELSE <<"notify">>)

\* C22: apply_theme called while no wallpaper path is set raises ValueError
\* and has done nothing: no asset copied, no legacy theme removed, no template
\* rendered, no addon applied, nothing of _reload_apps run.
C22_NoWallpaperNoEffect ==
    [][(app.wallpaper_path = "None" /\ AppAtRest /\ app'.op = "apply_theme") =>
           /\ app'.pc = "apply_raised"
           /\ app'.raised = "ValueError"
           /\ app'.pass_effects = <<>>
           /\ app'.effects = <<>>
           /\ app'.rendered_with = NoScheme]_vars

\* apply_theme has raised on a domain that holds a palette and no wallpaper path
C22_Witness ==
    /\ app.op = "apply_theme"
    /\ app.pc = "apply_raised"
    /\ app.wallpaper_path = "None"
    /\ app.scheme # NoScheme
    /\ app.raised = "ValueError"
    /\ app.pass_effects = <<>>

\* the generation options of the domain
OptionsOf(r) ==
    <<r.wallpaper_path, r.lightmode_enabled, r.silent, r.buttons_left_enabled,
      r.ui_improvements_enabled, r.scheme>>

\* C23: while a scheme is held, a step of any operation other than
\* reset_scheme and set_scheme_color_based_on_key (a read of the scheme
\* property, set_wallpaper_path, set_lightmode_enabled, apply_theme) leaves
\* every role's colour as it is, and set_scheme_color_based_on_key changes one
\* role at most.  While no scheme is held, set_scheme_color_based_on_key raises
\* ValueError and the generation options stay as they were.
C23_OverrideRetained ==
    [][/\ (app.scheme # NoScheme
               /\ app'.op \notin {"reset_scheme", "set_scheme_color_based_on_key"}) =>
              app'.scheme = app.scheme
       /\ (app.scheme # NoScheme /\ app'.op = "set_scheme_color_based_on_key") =>
              \E key \in AppRoles :
                  \A other \in AppRoles \ {key} : app'.scheme[other] = app.scheme[other]
       /\ (app.scheme = NoScheme /\ app'.op = "set_scheme_color_based_on_key") =>
              /\ app'.raised = "ValueError"
              /\ OptionsOf(app') = OptionsOf(app)]_vars

\* a read of the scheme property returns a palette computed from the first
\* wallpaper in dark mode with its override of primary, after the wallpaper
\* and the mode have been changed
C23_Witness ==
    /\ app.op = "scheme"
    /\ app.raised = "none"
    /\ app.scheme = [primary |-> "#000000", surface |-> "#1C1B1F"]
    /\ app.wallpaper_path = "/w2.png"
    /\ app.lightmode_enabled

----------------------------------------------------------------------------
(* parse_arguments, util.py 19-125 *)

\* longest command line, the program name not counted
MaxArgs == 2

\* three of the flags, and an option the parser does not know
ArgTokens == {"--silent", "--uninstall", "--ui", "-x"}

Argvs == UNION {[1..n -> ArgTokens] : n \in 0..MaxArgs}

\* parser.parse_args(args): the namespace, or the exit of parser.error
parse_args(args) ==
    IF \E k \in 1..Len(args) : args[k] = "-x"
    THEN [kind |-> "exit", ns |-> NoNamespace]
    ELSE [kind |-> "namespace",
          ns |-> [silent |-> \E k \in 1..Len(args) : args[k] = "--silent",
                  uninstall |-> \E k \in 1..Len(args) : args[k] = "--uninstall",
                  ui |-> \E k \in 1..Len(args) : args[k] = "--ui"]]

\* lines 91-97: the file of the old location is copied when there is none
\* at the new one
Migrated(st) ==
    IF st.args_file.state = "missing" /\ st.old_args_file.state # "missing"
    THEN st.old_args_file
    ELSE st.args_file

\* a version that saves the arguments of an uninstall as well
SavedUninstallToo(st, argv, args) ==
    IF Len(argv) > 0 /\ args.kind = "namespace" /\ ~st.readonly
    THEN [state |-> "ok", args |-> argv]
    ELSE Migrated(st)

\* lines 114-123: the arguments are written unless the command line is
\* empty or asks for an uninstall; a write that fails is only reported
Saved(st, argv, args) ==
    IF Len(argv) > 0 /\ args.kind = "namespace" /\ ~args.ns.uninstall /\ ~st.readonly
    THEN [state |-> "ok", args |-> argv]
    ELSE Migrated(st)

\* the whole function: the state it leaves and what the caller gets
parse_arguments(st, argv) ==
    IF Len(argv) = 0 /\ Migrated(st).state = "ok"
    THEN [st EXCEPT !.args_file = Migrated(st), !.argv = argv,
                    !.ret = parse_args(Migrated(st).args)]
    ELSE [st EXCEPT !.args_file = Saved(st, argv, parse_args(argv)), !.argv = argv,
                    !.ret = parse_args(argv)]

\* lists a former run can have stored
StoredBefore == {<<"--silent">>, <<"--ui", "--silent">>}

\* the file of the new location: absent, written by a former run, or not
\* in the format json.load reads; an existing file may be read-only
ArgsInit ==
    /\ argst \in {[NoArgs EXCEPT !.args_file = f, !.old_args_file = o, !.readonly = ro] :
                      f \in {NoFile, [state |-> "corrupt", args |-> <<>>]}
                             \cup {[state |-> "ok", args |-> a] : a \in StoredBefore},
                      o \in {NoFile, [state |-> "ok", args |-> <<"--ui">>]},
                      ro \in BOOLEAN}
    /\ argst.readonly => argst.args_file.state # "missing"
    /\ CalcQuiet /\ GenQuiet /\ SubQuiet /\ AppQuiet

\* the program is started with the command line argv
ParseArguments(argv) ==
    /\ argst' = parse_arguments(argst, argv)
    /\ UNCHANGED <<calc_vars, gen_vars, subst, app>>

ArgsNext == \E argv \in Argvs : ParseArguments(argv)

SpecArgs == ArgsInit /\ [][ArgsNext]_vars

\* the stored last-arguments list: the file of the new location, and the one
\* of the old location as long as there is none
Stored(st) == Migrated(st)

\* the invocation that leads to the next state had at least one argument,
\* parsed and did not ask for an uninstall
Qualifies ==
    /\ Len(argst'.argv) > 0
    /\ argst'.ret.kind = "namespace"
    /\ ~argst'.ret.ns.uninstall

\* an invocation without arguments returns the parse of the stored list
NoArgsReplays ==
    (Len(argst'.argv) = 0 /\ Stored(argst).state = "ok") =>
        argst'.ret = parse_args(Stored(argst).args)

\* C20 as stated: every invocation with at least one argument that parses
\* and does not ask for an uninstall leaves its argument list as the stored
\* list, every other invocation (no arguments, --uninstall, a rejected
\* command line) leaves the stored list as it was, and an invocation with no
\* arguments returns the parse of the stored list.
C20_Original ==
    [][/\ Stored(argst') = IF Qualifies
                           THEN [state |-> "ok", args |-> argst'.argv]
                           ELSE Stored(argst)
       /\ NoArgsReplays]_vars

\* C20: the stored list is the argument list of the most recent invocation
\* that had at least one argument, parsed, did not ask for an uninstall and
\* whose list could be written; every other invocation leaves the stored
\* list as it was, and an invocation with no arguments returns the parse of
\* the stored list.
C20_StoredArgs ==
    [][/\ Stored(argst') = IF Qualifies /\ ~argst.readonly
                           THEN [state |-> "ok", args |-> argst'.argv]
                           ELSE Stored(argst)
       /\ NoArgsReplays]_vars

\* a run without arguments that follows a run with --ui has returned the
\* parse of --ui, which is still the stored list
C20_Witness ==
    /\ argst.argv = <<>>
    /\ argst.args_file = [state |-> "ok", args |-> <<"--ui">>]
    /\ argst.old_args_file = NoFile
    /\ argst.ret = [kind |-> "namespace",
                    ns |-> [silent |-> FALSE, uninstall |-> FALSE, ui |-> TRUE]]

====
